---- MODULE Spec2Model ----
(***************************************************************************)
(* A model of yuin/cidre: the request dispatcher (App.ServeHTTP), the      *)
(* middleware chain with its explicit cursor, the response tracker, the    *)
(* signed-cookie functions and the session middleware with its store lock  *)
(* and self-rescheduling GC timer.                                         *)
(*                                                                         *)
(* Every request is served by its own worker (goroutine).  The worker's    *)
(* remaining work is a continuation k[r]: the sequence of steps the Go     *)
(* call stack still has to run, innermost first.  A panic unwinds the      *)
(* continuation to the deferred App.cleanup, running the deferred unlocks  *)
(* on the way.  Panic values are non-nil (since Go 1.21 panic(nil) is      *)
(* itself turned into a non-nil *runtime.PanicNilError).                   *)
(***************************************************************************)
EXTENDS Integers, Sequences, FiniteSets, TLC

\* ------------------------------------------------------------------ bounds
\* Number of request workers served concurrently by one App.
MaxRequests == 2
\* Number of response operations (WriteHeader / Write) one handler performs.
MaxHandlerWrites == 1

Requests == 1..MaxRequests

\* --------------------------------------------------------------- variables
VARIABLES
    app,        \* the App: Config, Routes, Hooks, OnPanic, OnNotFound
    heap,       \* MiddlewareChain objects by reference: [middlewares, sp]
    k,          \* per request: the continuation of its worker
    req,        \* per request: the *http.Request (Method, Path, form _method)
    ctx,        \* per request: the Context (Route, PathParams, MiddlewareChain, ...)
    rw,         \* per request: the responseWriter (status, contentLength, hooks)
    wire,       \* per request: what the transport has sent to the client
    rcv,        \* per request: the panic value travelling up the stack ("" = none)
    events,     \* per request: the observable events of the request, in order
    stat,       \* per request: bookkeeping (phase, handler write budget, counters)
    sign,       \* the signed-cookie functions at work: inputs, value presented, result
    url,        \* BuildUrl at work: route name, arguments, result, its dispatch
    flash,      \* the flash messages of one Session, the calls made, the last result
    store,      \* MemorySessionStore.store: the sessions by id
    mu,         \* the store's mutex: the worker that holds it
    sw          \* per session worker (request or GC timer): its continuation and locals

appVars == <<app, heap, k, req, ctx, rw, wire, rcv, events, stat>>
signVars == <<sign, url, flash>>
sessVars == <<store, mu, sw>>
vars == <<appVars, signVars, sessVars>>

\* ------------------------------------------------------------------ values
NoPanic == ""
NoRoute == ""
NoRef == <<"none", 0>>

Ev(e, n, i) == [e |-> e, n |-> n, i |-> i]
Op(o, s, i) == [op |-> o, s |-> s, i |-> i]

\* strings.ToUpper on the method names of the model.
ToUpper(m) ==
    CASE m = "get" -> "GET"
      [] m = "post" -> "POST"
      [] m = "delete" -> "DELETE"
      [] OTHER -> m

Reverse(s) == [i \in 1..Len(s) |-> s[Len(s) + 1 - i]]

\* ------------------------------------------------------------------- Hooks
HookDirectionNormal == 0
HookDirectionReverse == 1

HooksRunForward(hooks, name, direction) ==
    IF name \in DOMAIN hooks THEN hooks[name] ELSE <<>>

HooksRunBackward(hooks, name, direction) ==
    IF name \in DOMAIN hooks THEN Reverse(hooks[name]) ELSE <<>>

\* Hooks.Run: the hooks registered under name, in the order they are invoked.
HooksRun(hooks, name, direction) ==
    LET s == IF name \in DOMAIN hooks THEN hooks[name] ELSE <<>>
    IN  IF direction = HookDirectionNormal THEN s ELSE Reverse(s)

\* Hooks.Add: append to the list under name, creating it when absent.
HooksAdd(hooks, name, hook) ==
    IF name \in DOMAIN hooks
    THEN [hooks EXCEPT ![name] = Append(@, hook)]
    ELSE hooks @@ (name :> <<hook>>)

\* --------------------------------------------------------- MiddlewareChain
Mw(id) == [kind |-> "mw", id |-> id]
Handler(id) == [kind |-> "handler", id |-> id]
NopMiddleware == [kind |-> "nop", id |-> "nop"]

NewMiddlewareChain(middlewares) == [middlewares |-> middlewares, sp |-> -1]

\* The reference of the chain object a request's Route.ServeHTTP allocates.
ReqRef(r) == <<"req", r>>
\* The reference of the template chain NewRoute stores in the route.
RouteRef(n) == <<"route", n>>

\* MiddlewareChain.Copy called for request r on the chain at reference mc: a
\* new object over the same handler list, with its own cursor.
CopyShared(mc, r) == [ref |-> mc, obj |-> heap[mc]]

Copy(mc, r) == [ref |-> ReqRef(r), obj |-> NewMiddlewareChain(heap[mc].middlewares)]

\* MiddlewareChain.DoNext, first statement: the advanced cursor.
DoNextSpSkip(sp) == sp + 2

DoNextSp(sp) == sp + 1

\* ------------------------------------------------------------------- Route
Lit(s) == [t |-> "lit", s |-> s]
Param(n) == [t |-> "param", s |-> n]

\* NewRoute: the names of the named groups of the pattern, in declaration order.
RECURSIVE ParamNamesOf(_)
ParamNamesOf(p) ==
    IF p = <<>> THEN <<>>
    ELSE IF Head(p).t = "param" THEN <<Head(p).s>> \o ParamNamesOf(Tail(p))
         ELSE ParamNamesOf(Tail(p))

NewRouteNoSentinel(n, p, m, s, handler, middlewares) ==
    [ Name |-> n, Pattern |-> p, Method |-> m, IsStatic |-> s,
      PathParamNames |-> ParamNamesOf(p),
      MiddlewareChain |-> NewMiddlewareChain(middlewares \o <<handler>>) ]

NewRoute(n, p, m, s, handler, middlewares) ==
    [ Name |-> n, Pattern |-> p, Method |-> m, IsStatic |-> s,
      PathParamNames |-> ParamNamesOf(p),
      MiddlewareChain |-> NewMiddlewareChain(middlewares \o <<handler, NopMiddleware>>) ]

\* Route.Pattern.FindStringSubmatch on a path: the anchored pattern matches
\* segment by segment; a named group [^/]+ captures one whole segment.
RECURSIVE Captures(_, _)
Captures(p, path) ==
    IF p = <<>> THEN <<>>
    ELSE IF Head(p).t = "param" THEN <<Head(path)>> \o Captures(Tail(p), Tail(path))
         ELSE Captures(Tail(p), Tail(path))

PatternMatches(p, path) ==
    /\ Len(p) = Len(path)
    /\ \A i \in 1..Len(p) :
          IF p[i].t = "lit" THEN p[i].s = path[i] ELSE path[i] # ""

FindStringSubmatch(p, path) ==
    IF PatternMatches(p, path) THEN <<path>> \o Captures(p, path) ELSE <<>>

\* -------------------------------------------------------------- MountPoint
MountPointBare(appMiddlewares, path) == [Path |-> path, Middlewares |-> <<>>]

\* App.MountPoint: the mount point starts with the app-level middlewares.
MountPoint(appMiddlewares, path) == [Path |-> path, Middlewares |-> appMiddlewares]

\* MountPoint.Use
MountPointUse(mt, middlewares) == [mt EXCEPT !.Middlewares = @ \o middlewares]

MountPointRouteKeepsFirst(routes, mt, n, p, m, s, h, middlewares) ==
    LET route == NewRoute(n, mt.Path \o p, m, s, h, mt.Middlewares \o middlewares)
    IN  [x \in (DOMAIN routes) \cup {n} |-> IF x \in DOMAIN routes THEN routes[x] ELSE route]

\* MountPoint.Route: routes is App.Routes (a map keyed by route name).
MountPointRoute(routes, mt, n, p, m, s, h, middlewares) ==
    LET route == NewRoute(n, mt.Path \o p, m, s, h, mt.Middlewares \o middlewares)
    IN  [x \in (DOMAIN routes) \cup {n} |-> IF x = n THEN route ELSE routes[x]]

\* ------------------------------------------------------- the App under test
\* The hooks registered on App.Hooks at setup, per hook point, in
\* registration order.
AppHooks ==
    [ start_request |-> <<"sr1", "sr2">>,
      start_action  |-> <<"sa1", "sa2">>,
      end_action    |-> <<"ea1", "ea2">>,
      end_request   |-> <<"accesslog", "er2">> ]

\* app.Use(md1)
AppMiddlewares == <<Mw("md1")>>

\* p1 := app.MountPoint("/p1"); p1.Use(md2)
MountP1 == MountPointUse(MountPoint(AppMiddlewares, <<Lit("p1")>>), <<Mw("md2")>>)
\* p2 := app.MountPoint("/p1")
MountP2 == MountPoint(AppMiddlewares, <<Lit("p1")>>)

\* p1.Get("page1", "page1", h1, md3); p2.Get("any", "(?P<name>[^/]+)", h2);
\* p2.Post("edit", "(?P<id>[^/]+)", h3)
AppRoutes ==
    LET r0 == <<>>
        r1 == MountPointRoute(r0, MountP1, "page1", <<Lit("page1")>>, "GET", FALSE,
                              Handler("h1"), <<Mw("md3")>>)
        r2 == MountPointRoute(r1, MountP2, "any", <<Param("name")>>, "GET", FALSE,
                              Handler("h2"), <<>>)
        r3 == MountPointRoute(r2, MountP2, "edit", <<Param("id")>>, "POST", FALSE,
                              Handler("h3"), <<>>)
    IN  r3

\* NewApp + DefaultAppConfig, with the routes and hooks above; each route
\* holds the reference of its template chain.
NewApp(debug, onPanic) ==
    [ Config |-> [Debug |-> debug, AllowHttpMethodOverwrite |-> TRUE],
      Routes |-> [n \in DOMAIN AppRoutes |->
                    [AppRoutes[n] EXCEPT !.MiddlewareChain = RouteRef(n)]],
      Hooks |-> AppHooks,
      OnPanic |-> onPanic,
      OnNotFound |-> "DefaultOnNotFound" ]

ChainRefs == {RouteRef(n) : n \in DOMAIN AppRoutes} \cup {ReqRef(r) : r \in Requests}

\* The requests a client sends: method, path and the _method form value.
RequestInputs ==
    { [Method |-> "get", Path |-> <<"p1", "page1">>, FormMethod |-> ""],
      [Method |-> "GET", Path |-> <<"nf">>, FormMethod |-> ""],
      [Method |-> "POST", Path |-> <<"p1", "page1">>, FormMethod |-> "delete"] }

NoRequest == [Method |-> "", Path |-> <<>>, FormMethod |-> ""]

\* The values a handler's panic carries, and the hooks that may panic when
\* they run (with the value "v1", as a panicking middleware does).
PanicValues == {"v1", "v2"}
PanickyHooks == {"sr2", "sa1", "ea1"}
\* The handlers that write to the response, panic or call DoNext; the other
\* handlers act and return.
BusyHandlers == {"h1"}

\* ------------------------------------------------------ per-request objects
\* NewContext
NewContext ==
    [ Route |-> NoRoute, PathParams |-> <<>>, MiddlewareChain |-> NoRef,
      Started |-> FALSE, ResponseTime |-> FALSE ]

\* NewResponseWriter: status 0, contentLength 0, no hooks.
NewResponseWriter == [status |-> 0, contentLength |-> 0, hooks |-> <<>>]

\* The transport below the tracker (net/http): the first header write fixes
\* the status line, later ones are ignored; content is appended, unless the
\* connection is broken and Write returns an error.
NewWire == [code |-> 0, body |-> <<>>, broken |-> FALSE]

NewStat ==
    [ phase |-> "new", writes |-> 0, onPanic |-> 0, raised |-> 0,
      escaped |-> FALSE, beh |-> <<>>, invoked |-> <<>>, hpanic |-> FALSE,
      wroteBeforePanic |-> FALSE, onPanicPanicked |-> FALSE ]

\* len(b) of the byte strings of the model.
BLen(b) ==
    CASE b = "" -> 0
      [] b = "x" -> 1
      [] b = "Oops!" -> 5
      [] b = "404 page not found" -> 19
      [] b = "Internal Server Error" -> 22
      [] OTHER -> 40

\* ---------------------------------------------------------------- panics
UnwoundNoDefer(kk) == <<>>

\* The continuation a panic unwinds to: the deferred App.cleanup when the
\* panic was raised under it, nothing when it was raised by cleanup itself.
RECURSIVE Unwound(_)
Unwound(kk) ==
    IF kk = <<>> THEN <<>>
    ELSE IF Head(kk).op = "cleanup" THEN kk
         ELSE Unwound(Tail(kk))

\* The bookkeeping of a panic raised with continuation kk.
Raised(st, kk) ==
    [st EXCEPT !.raised = @ + 1,
               !.escaped = (Unwound(kk) = <<>>),
               !.phase = IF Unwound(kk) = <<>> THEN "done" ELSE @]

\* ------------------------------------------------------------------- Init
\* The signed-cookie functions and the session store are not at work.
NoUrl ==
    [ phase |-> "off", name |-> "", args |-> <<>>, out |-> "", path |-> <<>>,
      Route |-> "", PathParams |-> <<>> ]
NoFlash == [on |-> FALSE, m |-> <<>>, log |-> <<>>, ret |-> <<>>]
NoResult == [out |-> "", value |-> <<>>]
NoSign ==
    [ phase |-> "off", id |-> <<>>, secret |-> "", signed |-> <<>>,
      presented |-> <<>>, how |-> "", result |-> NoResult ]
NoStore == <<>>
NoHolder == "none"
NoWorkers == <<>>

AppConfigs ==
    { NewApp(FALSE, "DefaultOnPanic"), NewApp(TRUE, "DefaultOnPanic"),
      NewApp(FALSE, "custom") }

InitHeap ==
    [ ref \in ChainRefs |->
        IF ref[1] = "route" THEN AppRoutes[ref[2]].MiddlewareChain
        ELSE NewMiddlewareChain(<<>>) ]

Init ==
    /\ sign = NoSign /\ url = NoUrl /\ flash = NoFlash
    /\ store = NoStore /\ mu = NoHolder /\ sw = NoWorkers
    /\ app \in AppConfigs
    /\ heap = InitHeap
    /\ k = [r \in Requests |-> <<>>]
    /\ req = [r \in Requests |-> NoRequest]
    /\ ctx = [r \in Requests |-> NewContext]
    /\ rw = [r \in Requests |-> NewResponseWriter]
    /\ wire = [r \in Requests |-> NewWire]
    /\ rcv = [r \in Requests |-> NoPanic]
    /\ events = [r \in Requests |-> <<>>]
    /\ stat = [r \in Requests |-> NewStat]

\* ------------------------------------------------------- App.ServeHTTP
HeadOp(r) == IF k[r] = <<>> THEN "" ELSE Head(k[r]).op

HookEvents(name, ids) == [i \in 1..Len(ids) |-> Ev(name, ids[i], 0)]

\* App.ServeHTTP, entry: wrap the transport response, allocate the context,
\* note the start time and defer cleanup.
Arrive(r) ==
    /\ stat[r].phase = "new"
    /\ \A q \in Requests : q < r => stat[q].phase # "new"
    /\ \E in \in RequestInputs : req' = [req EXCEPT ![r] = in]
    /\ rw' = [rw EXCEPT ![r] = NewResponseWriter]
    /\ ctx' = [ctx EXCEPT ![r] = [NewContext EXCEPT !.Started = TRUE]]
    /\ k' = [k EXCEPT ![r] = <<Op("start_request", "", 0), Op("match", "", 0),
                                Op("cleanup", "", 0)>>]
    /\ stat' = [stat EXCEPT ![r].phase = "serving"]
    /\ UNCHANGED <<signVars, sessVars, app, heap, wire, rcv, events>>

\* One of the app-level hook points run inside ServeHTTP: start_request and
\* start_action forward, end_action in reverse.  A hook may panic, which ends
\* the run of the list.
AppHookDirection(name) ==
    IF name \in {"start_request", "start_action"} THEN HookDirectionNormal
    ELSE HookDirectionReverse

RunAppHooks(r, name) ==
    /\ HeadOp(r) = name
    /\ LET order == HooksRun(app.Hooks, name, AppHookDirection(name))
       IN  \/ /\ events' = [events EXCEPT ![r] = @ \o HookEvents(name, order)]
              /\ k' = [k EXCEPT ![r] = Tail(@)]
              /\ UNCHANGED <<rcv, stat>>
           \/ \E p \in 1..Len(order) :
              /\ order[p] \in PanickyHooks
              /\ events' = [events EXCEPT ![r] = @ \o HookEvents(name, SubSeq(order, 1, p))]
              /\ k' = [k EXCEPT ![r] = Unwound(@)]
              /\ rcv' = [rcv EXCEPT ![r] = "v1"]
              /\ stat' = [stat EXCEPT ![r] = Raised(@, k[r])]
    /\ UNCHANGED <<signVars, sessVars, app, heap, req, ctx, rw, wire>>

StartRequest(r) == RunAppHooks(r, "start_request")
StartAction(r) == RunAppHooks(r, "start_action")
EndAction(r) == RunAppHooks(r, "end_action")

MatchMethodVerbOnly(config, rq) == rq.Method

MatchMethodFormAlways(config, rq) ==
    IF rq.FormMethod # "" THEN rq.FormMethod ELSE rq.Method

\* The method used for matching: the _method form value replaces the verb
\* when overwriting is allowed and the value is not empty.
MatchMethod(config, rq) ==
    IF config.AllowHttpMethodOverwrite /\ rq.FormMethod # "" THEN rq.FormMethod
    ELSE rq.Method

\* The orders in which "for _, route := range app.Routes" may visit the
\* routes: Go leaves the iteration order of a map unspecified.
RangeOrders(routes) ==
    { o \in [1..Cardinality(DOMAIN routes) -> DOMAIN routes] :
        \A i, j \in DOMAIN o : i # j => o[i] # o[j] }

RouteMatches(route, method, path) ==
    /\ ToUpper(method) = ToUpper(route.Method)
    /\ Len(FindStringSubmatch(route.Pattern, path)) > 0

\* The route the scan loop selects when it visits the routes in this order:
\* the first one whose method and pattern match.
RECURSIVE FirstMatch(_, _, _, _)
FirstMatch(routes, order, method, path) ==
    IF order = <<>> THEN NoRoute
    ELSE IF RouteMatches(routes[Head(order)], method, path) THEN Head(order)
         ELSE FirstMatch(routes, Tail(order), method, path)

\* The path parameters bound for the selected route.
BoundParams(route, path) ==
    LET sub == FindStringSubmatch(route.Pattern, path)
    IN  [i \in 1..Len(route.PathParamNames) |-> <<route.PathParamNames[i], sub[i + 1]>>]

\* The body of the scan loop for one route, on the context c as the loop
\* has left it: a route of another method is passed over; a route whose
\* pattern matches has its parameters added to the context and is selected.
ScanStepBindFirst(route, method, path, c) ==
    IF Len(FindStringSubmatch(route.Pattern, path)) = 0 THEN c
    ELSE IF ToUpper(method) # ToUpper(route.Method)
         THEN [c EXCEPT !.PathParams = @ \o BoundParams(route, path)]
         ELSE [c EXCEPT !.PathParams = @ \o BoundParams(route, path),
                        !.Route = route.Name]

ScanStep(route, method, path, c) ==
    IF ToUpper(method) # ToUpper(route.Method) THEN c
    ELSE IF Len(FindStringSubmatch(route.Pattern, path)) > 0
         THEN [c EXCEPT !.PathParams = @ \o BoundParams(route, path),
                        !.Route = route.Name]
         ELSE c

\* The scan loop over the routes in the order of the range statement; it
\* breaks as soon as the context has a route.
RECURSIVE Scan(_, _, _, _, _)
Scan(routes, order, method, path, c) ==
    IF order = <<>> \/ c.Route # NoRoute THEN c
    ELSE Scan(routes, Tail(order), method, path,
              ScanStep(routes[Head(order)], method, path, c))

\* App.ServeHTTP, the scan of the route table.
Match(r) ==
    /\ HeadOp(r) = "match"
    /\ \E order \in RangeOrders(app.Routes) :
         LET c == Scan(app.Routes, order, MatchMethod(app.Config, req[r]), req[r].Path,
                       [Route |-> NoRoute, PathParams |-> <<>>])
         IN  /\ ctx' = [ctx EXCEPT ![r].Route = c.Route, ![r].PathParams = c.PathParams]
             /\ IF c.Route = NoRoute
                THEN /\ k' = [k EXCEPT ![r] = <<Op("not_found", "", 0)>> \o Tail(@)]
                     /\ UNCHANGED events
                ELSE /\ k' = [k EXCEPT ![r] = <<Op("start_action", "", 0), Op("route", "", 0),
                                                 Op("end_action", "", 0)>> \o Tail(@)]
                     /\ events' = [events EXCEPT ![r] = Append(@, Ev("routed", c.Route, 0))]
    /\ UNCHANGED <<signVars, sessVars, app, heap, req, rw, wire, rcv, stat>>

\* http.Error(w, body, code), as DefaultOnPanic and http.NotFound call it.
HttpError(body, code) == <<Op("WriteHeader", "", code), Op("Write", body, 0)>>

\* App.DefaultOnNotFound
DefaultOnNotFound == HttpError("404 page not found", 404)

\* App.ServeHTTP: no route matched, the not-found handler runs and ServeHTTP
\* returns.
NotFound(r) ==
    /\ HeadOp(r) = "not_found"
    /\ events' = [events EXCEPT ![r] = Append(@, Ev("OnNotFound", "", 0))]
    /\ k' = [k EXCEPT ![r] = DefaultOnNotFound \o Tail(@)]
    /\ UNCHANGED <<signVars, sessVars, app, heap, req, ctx, rw, wire, rcv, stat>>

\* ------------------------------------------------------- running the chain
\* What invoking a link puts on the worker's stack: a middleware or a
\* handler starts to run, the sentinel returns at once.
EnterOps(link, sp) ==
    IF link.kind = "nop" THEN <<>> ELSE <<Op(link.kind, link.id, sp + 1)>>

\* The links from index sp (0-based) to the end of the list, each invoked
\* after the one before it has returned.
RECURSIVE EnterAll(_, _)
EnterAll(mws, sp) ==
    IF sp >= Len(mws) THEN <<>>
    ELSE EnterOps(mws[sp + 1], sp) \o EnterAll(mws, sp + 1)

\* MiddlewareChain.DoNext on the chain at reference ref of heap h: the cursor
\* advances and the one link under it is invoked (ops); indexing past the end
\* of the handler list is a run-time panic.
DoNextAll(h, ref) ==
    LET sp == DoNextSp(h[ref].sp)
        mws == h[ref].middlewares
        ok == sp >= 0 /\ sp < Len(mws)
    IN  [ heap |-> [h EXCEPT ![ref].sp = sp], ok |-> ok, sp |-> sp,
          ops |-> IF ok THEN EnterAll(mws, sp) ELSE <<>> ]

DoNext(h, ref) ==
    LET sp == DoNextSp(h[ref].sp)
        mws == h[ref].middlewares
        ok == sp >= 0 /\ sp < Len(mws)
    IN  [ heap |-> [h EXCEPT ![ref].sp = sp], ok |-> ok, sp |-> sp,
          ops |-> IF ok THEN EnterOps(mws[sp + 1], sp) ELSE <<>> ]

\* The effect on request r of calling DoNext from a frame whose own
\* continuation is after, with the rest of the stack below it; st is the
\* request's bookkeeping at the call.
CallDoNext(r, h, ref, after, below, st) ==
    LET d == DoNext(h, ref)
    IN  /\ heap' = d.heap
        /\ IF d.ok
           THEN /\ k' = [k EXCEPT ![r] = d.ops \o after \o below]
                /\ stat' = [stat EXCEPT ![r] = [st EXCEPT !.invoked = Append(@, d.sp)]]
                /\ UNCHANGED rcv
           ELSE /\ k' = [k EXCEPT ![r] = Unwound(below)]
                /\ rcv' = [rcv EXCEPT ![r] = "index out of range"]
                /\ stat' = [stat EXCEPT ![r] = Raised(st, below)]

\* Route.ServeHTTP: the context gets a copy of the route's chain, and the
\* first link is invoked.
RouteServeHTTP(r) ==
    /\ HeadOp(r) = "route"
    /\ LET c == Copy(app.Routes[ctx[r].Route].MiddlewareChain, r)
           h == [heap EXCEPT ![c.ref] = c.obj]
       IN  /\ ctx' = [ctx EXCEPT ![r].MiddlewareChain = c.ref]
           /\ CallDoNext(r, h, c.ref, <<>>, Tail(k[r]), stat[r])
    /\ UNCHANGED <<signVars, sessVars, app, req, rw, wire, events>>

\* A middleware that acts, calls DoNext once and acts again when DoNext
\* returns.
MwWrap(r) ==
    /\ HeadOp(r) = "mw"
    /\ LET f == Head(k[r])
       IN  /\ events' = [events EXCEPT ![r] = Append(@, Ev("pre", f.s, f.i))]
           /\ CallDoNext(r, heap, ctx[r].MiddlewareChain, <<Op("post", f.s, f.i)>>,
                         Tail(k[r]), [stat[r] EXCEPT !.beh = Append(@, "wrap")])
    /\ UNCHANGED <<signVars, sessVars, app, req, ctx, rw, wire>>

\* The second half of such a middleware, after DoNext has returned.
MwPost(r) ==
    /\ HeadOp(r) = "post"
    /\ events' = [events EXCEPT ![r] = Append(@, Ev("post", Head(k[r]).s, Head(k[r]).i))]
    /\ k' = [k EXCEPT ![r] = Tail(@)]
    /\ UNCHANGED <<signVars, sessVars, app, heap, req, ctx, rw, wire, rcv, stat>>

\* A middleware that acts and returns without calling DoNext.
MwStop(r) ==
    /\ HeadOp(r) = "mw"
    /\ events' = [events EXCEPT ![r] = Append(@, Ev("pre", Head(k[r]).s, Head(k[r]).i))]
    /\ k' = [k EXCEPT ![r] = Tail(@)]
    /\ stat' = [stat EXCEPT ![r].beh = Append(@, "stop")]
    /\ UNCHANGED <<signVars, sessVars, app, heap, req, ctx, rw, wire, rcv>>

\* A middleware that panics.
MwPanic(r) ==
    /\ HeadOp(r) = "mw"
    /\ rcv' = [rcv EXCEPT ![r] = "v1"]
    /\ events' = [events EXCEPT ![r] = Append(@, Ev("pre", Head(k[r]).s, Head(k[r]).i))]
    /\ k' = [k EXCEPT ![r] = Unwound(@)]
    /\ stat' = [stat EXCEPT ![r] = Raised([@ EXCEPT !.beh = Append(@, "panic")], k[r])]
    /\ UNCHANGED <<signVars, sessVars, app, heap, req, ctx, rw, wire>>

\* The handler at the end of the chain.  It starts by acting (event H); it
\* may then write to the response, and it ends by returning, by panicking or
\* by calling DoNext (which reaches the sentinel) and returning.
HandlerStart(r) ==
    /\ HeadOp(r) = "handler"
    /\ events' = [events EXCEPT ![r] = Append(@, Ev("H", Head(k[r]).s, Head(k[r]).i))]
    /\ k' = [k EXCEPT ![r] = <<Op("hbody", Head(@).s, Head(@).i)>> \o Tail(@)]
    /\ UNCHANGED <<signVars, sessVars, app, heap, req, ctx, rw, wire, rcv, stat>>

HandlerWriteHeader(r) ==
    /\ HeadOp(r) = "hbody"
    /\ Head(k[r]).s \in BusyHandlers
    /\ stat[r].writes < MaxHandlerWrites
    /\ k' = [k EXCEPT ![r] = <<Op("WriteHeader", "", 404)>> \o @]
    /\ stat' = [stat EXCEPT ![r].writes = @ + 1]
    /\ UNCHANGED <<signVars, sessVars, app, heap, req, ctx, rw, wire, rcv, events>>

HandlerWrite(r) ==
    /\ HeadOp(r) = "hbody"
    /\ Head(k[r]).s \in BusyHandlers
    /\ stat[r].writes < MaxHandlerWrites
    /\ \E b \in {"", "x"} : k' = [k EXCEPT ![r] = <<Op("Write", b, 0)>> \o @]
    /\ stat' = [stat EXCEPT ![r].writes = @ + 1]
    /\ UNCHANGED <<signVars, sessVars, app, heap, req, ctx, rw, wire, rcv, events>>

HandlerReturn(r) ==
    /\ HeadOp(r) = "hbody"
    /\ k' = [k EXCEPT ![r] = Tail(@)]
    /\ UNCHANGED <<signVars, sessVars, app, heap, req, ctx, rw, wire, rcv, events, stat>>

HandlerDoNext(r) ==
    /\ HeadOp(r) = "hbody"
    /\ Head(k[r]).s \in BusyHandlers
    /\ CallDoNext(r, heap, ctx[r].MiddlewareChain, <<>>, Tail(k[r]), stat[r])
    /\ UNCHANGED <<signVars, sessVars, app, req, ctx, rw, wire, events>>

HandlerPanic(r) ==
    /\ HeadOp(r) = "hbody"
    /\ Head(k[r]).s \in BusyHandlers
    /\ \E v \in PanicValues : rcv' = [rcv EXCEPT ![r] = v]
    /\ k' = [k EXCEPT ![r] = Unwound(@)]
    /\ stat' = [stat EXCEPT ![r] = Raised([@ EXCEPT !.hpanic = TRUE,
                                              !.wroteBeforePanic = (wire[r].code # 0)], k[r])]
    /\ UNCHANGED <<signVars, sessVars, app, heap, req, ctx, rw, wire, events>>

\* ---------------------------------------------------------- responseWriter
\* The hooks of one hook point of the tracker, as the steps that run them in
\* reverse registration order; data is the status or the content length.
TrackerHookOps(hooks, name, data) ==
    LET order == HooksRun(hooks, name, HookDirectionReverse)
    IN  [i \in 1..Len(order) |-> Op(name, order[i], data)]

\* The transport's WriteHeader: only the first status reaches the client.
TransportWriteHeader(w, status) == IF w.code = 0 THEN [w EXCEPT !.code = status] ELSE w

\* The transport's Write: a write before any header sends status 200 first.
TransportWrite(w, b) ==
    IF w.broken THEN w
    ELSE [w EXCEPT !.code = IF @ = 0 THEN 200 ELSE @, !.body = Append(@, b)]

\* responseWriter.Write, after the transport's Write: if err == nil the
\* length of b is added to contentLength.
CountWrite(t, w, b) ==
    IF w.broken THEN t ELSE [t EXCEPT !.contentLength = @ + BLen(b)]

\* responseWriter.WriteHeader(status) called with the steps rest still to
\* run after it: the before_write_header hooks run first; with none
\* registered the status is recorded and handed to the transport at once, and
\* the after_write_header hooks follow.
CallWriteHeader(r, w, status, rest) ==
    LET before == TrackerHookOps(w.hooks, "before_write_header", status)
    IN  IF before = <<>>
        THEN /\ rw' = [rw EXCEPT ![r] = [w EXCEPT !.status = status]]
             /\ wire' = [wire EXCEPT ![r] = TransportWriteHeader(@, status)]
             /\ k' = [k EXCEPT ![r] =
                        TrackerHookOps(w.hooks, "after_write_header", status) \o rest]
        ELSE /\ rw' = [rw EXCEPT ![r] = w]
             /\ k' = [k EXCEPT ![r] = before \o <<Op("setStatus", "", status)>> \o rest]
             /\ UNCHANGED wire

RwWriteHeader(r) ==
    /\ HeadOp(r) = "WriteHeader"
    /\ CallWriteHeader(r, rw[r], Head(k[r]).i, Tail(k[r]))
    /\ UNCHANGED <<signVars, sessVars, app, heap, req, ctx, rcv, events, stat>>

\* responseWriter.WriteHeader, after the before hooks have run: w.status =
\* status, the transport's WriteHeader, then the after_write_header hooks.
RwSetStatus(r) ==
    /\ HeadOp(r) = "setStatus"
    /\ rw' = [rw EXCEPT ![r].status = Head(k[r]).i]
    /\ wire' = [wire EXCEPT ![r] = TransportWriteHeader(@, Head(k[r]).i)]
    /\ k' = [k EXCEPT ![r] =
               TrackerHookOps(rw[r].hooks, "after_write_header", Head(@).i) \o Tail(@)]
    /\ UNCHANGED <<signVars, sessVars, app, heap, req, ctx, rcv, events, stat>>

\* responseWriter.Write(b), entry: while no content has been counted, the
\* status defaults to 200 and the header is written (again); the content
\* follows.  Otherwise the content goes to the transport at once.
RwWrite(r) ==
    /\ HeadOp(r) = "Write"
    /\ LET b == Head(k[r]).s
           st == IF rw[r].status = 0 THEN 200 ELSE rw[r].status
       IN  IF rw[r].contentLength = 0
           THEN CallWriteHeader(r, [rw[r] EXCEPT !.status = st], st,
                                <<Op("content", b, 0)>> \o Tail(k[r]))
           ELSE /\ wire' = [wire EXCEPT ![r] = TransportWrite(@, b)]
                /\ rw' = [rw EXCEPT ![r] = CountWrite(@, wire[r], b)]
                /\ k' = [k EXCEPT ![r] = Tail(@)]
    /\ UNCHANGED <<signVars, sessVars, app, heap, req, ctx, rcv, events, stat>>

\* responseWriter.Write, after the header: the before_write_content hooks
\* run; with none registered the content goes to the transport at once and
\* its length is counted.
RwContent(r) ==
    /\ HeadOp(r) = "content"
    /\ LET b == Head(k[r]).s
           before == TrackerHookOps(rw[r].hooks, "before_write_content", BLen(b))
       IN  IF before = <<>>
           THEN /\ wire' = [wire EXCEPT ![r] = TransportWrite(@, b)]
                /\ rw' = [rw EXCEPT ![r] = CountWrite(@, wire[r], b)]
                /\ k' = [k EXCEPT ![r] = Tail(@)]
           ELSE /\ k' = [k EXCEPT ![r] = before \o <<Op("transport", b, 0)>> \o Tail(@)]
                /\ UNCHANGED <<rw, wire>>
    /\ UNCHANGED <<signVars, sessVars, app, heap, req, ctx, rcv, events, stat>>

\* responseWriter.Write, after the before_write_content hooks have run.
RwTransport(r) ==
    /\ HeadOp(r) = "transport"
    /\ wire' = [wire EXCEPT ![r] = TransportWrite(@, Head(k[r]).s)]
    /\ rw' = [rw EXCEPT ![r] = CountWrite(@, wire[r], Head(k[r]).s)]
    /\ k' = [k EXCEPT ![r] = Tail(@)]
    /\ UNCHANGED <<signVars, sessVars, app, heap, req, ctx, rcv, events, stat>>

\* ------------------------------------------------------------- App.cleanup
\* The body DefaultOnPanic writes in debug mode: the value and the stack.
DebugBody(v) ==
    CASE v = "v1" -> "v1: stack"
      [] v = "v2" -> "v2: stack"
      [] OTHER -> "index out of range: stack"

\* App.DefaultOnPanic
DefaultOnPanicDebugAlways(config, v) == HttpError(DebugBody(v), 500)

DefaultOnPanic(config, v) ==
    IF config.Debug THEN HttpError(DebugBody(v), 500)
    ELSE HttpError("Internal Server Error", 500)

\* App.cleanup when recover() returns a value: the panic handler is called
\* with it.  The handler installed by the tests writes 500 and "Oops!"; a
\* handler may also panic itself.
CleanupRecover(r) ==
    /\ HeadOp(r) = "cleanup"
    /\ rcv[r] # NoPanic
    /\ rcv' = [rcv EXCEPT ![r] = NoPanic]
    /\ events' = [events EXCEPT ![r] = Append(@, Ev("OnPanic", rcv[r], 0))]
    /\ \/ /\ app.OnPanic = "DefaultOnPanic"
          /\ k' = [k EXCEPT ![r] = DefaultOnPanic(app.Config, rcv[r])
                                     \o <<Op("cleanup2", "", 0)>>]
          /\ stat' = [stat EXCEPT ![r].onPanic = @ + 1]
       \/ /\ app.OnPanic = "custom"
          /\ k' = [k EXCEPT ![r] = <<Op("WriteHeader", "", 500), Op("Write", "Oops!", 0),
                                      Op("cleanup2", "", 0)>>]
          /\ stat' = [stat EXCEPT ![r].onPanic = @ + 1]
       \/ /\ app.OnPanic = "custom"
          /\ k' = [k EXCEPT ![r] = <<>>]
          /\ stat' = [stat EXCEPT ![r].onPanic = @ + 1, ![r].escaped = TRUE,
                                  ![r].onPanicPanicked = TRUE, ![r].phase = "done"]
    /\ UNCHANGED <<signVars, sessVars, app, heap, req, ctx, rw, wire>>

\* App.cleanup, after the recovery: the response time is recorded and the
\* end_request hooks run in reverse.
CleanupFinish(r) ==
    /\ \/ HeadOp(r) = "cleanup" /\ rcv[r] = NoPanic
       \/ HeadOp(r) = "cleanup2"
    /\ ctx' = [ctx EXCEPT ![r].ResponseTime = TRUE]
    /\ events' = [events EXCEPT ![r] =
                    Append(@, Ev("ResponseTime", "", 0))
                    \o HookEvents("end_request",
                                  HooksRun(app.Hooks, "end_request", HookDirectionReverse))]
    /\ k' = [k EXCEPT ![r] = <<>>]
    /\ stat' = [stat EXCEPT ![r].phase = "done"]
    /\ UNCHANGED <<signVars, sessVars, app, heap, req, rw, wire, rcv>>

\* ------------------------------------------------------------------- Spec
Serve(r) ==
    \/ Arrive(r)
    \/ StartRequest(r)
    \/ Match(r)
    \/ NotFound(r)
    \/ StartAction(r)
    \/ RouteServeHTTP(r)
    \/ MwWrap(r)
    \/ MwPost(r)
    \/ MwStop(r)
    \/ MwPanic(r)
    \/ HandlerStart(r)
    \/ HandlerWriteHeader(r)
    \/ HandlerWrite(r)
    \/ HandlerReturn(r)
    \/ HandlerDoNext(r)
    \/ HandlerPanic(r)
    \/ EndAction(r)
    \/ RwWriteHeader(r)
    \/ RwWrite(r)
    \/ RwContent(r)
    \/ CleanupRecover(r)
    \/ CleanupFinish(r)

Next == \E r \in Requests : Serve(r)

Spec == Init /\ [][Next]_vars

\* ----------------------------------------------------- properties of Spec
Done(r) == stat[r].phase = "done"

\* The request went through Route.ServeHTTP.
InChain(r) == ctx[r].MiddlewareChain # NoRef

\* The events of the chain of request r: what its middlewares and its
\* handler did, in order.
IsChainEvent(e) == e.e \in {"pre", "H", "post"}
ChainEvents(r) == SelectSeq(events[r], IsChainEvent)

\* Every middleware that ran for r acted, called DoNext once and acted
\* again, and the handler did not panic.
OnlyWrap(r) ==
    /\ \A i \in DOMAIN stat[r].beh : stat[r].beh[i] = "wrap"
    /\ ~stat[r].hpanic

\* The middlewares m1..mn of the route of r and its handler H.
RouteLinks(r) == AppRoutes[ctx[r].Route].MiddlewareChain.middlewares
RouteMws(r) == SubSeq(RouteLinks(r), 1, Len(RouteLinks(r)) - 2)
RouteHandler(r) == RouteLinks(r)[Len(RouteLinks(r)) - 1]

Onion(mws, h) ==
    [i \in 1..Len(mws) |-> Ev("pre", mws[i].id, i)]
    \o <<Ev("H", h.id, Len(mws) + 1)>>
    \o [i \in 1..Len(mws) |-> Ev("post", mws[Len(mws) + 1 - i].id, Len(mws) + 1 - i)]

\* C1: when every middleware m1..mn of the chain acts, calls DoNext once and
\* acts again, the request produces exactly pre1..pren, H, postn..post1.
C1_OnionOrder ==
    \A r \in Requests :
        (Done(r) /\ InChain(r) /\ OnlyWrap(r))
            => ChainEvents(r) = Onion(RouteMws(r), RouteHandler(r))

C1_Witness ==
    \E r \in Requests :
        /\ Done(r) /\ InChain(r) /\ OnlyWrap(r)
        /\ ctx[r].Route = "page1"
        /\ Len(stat[r].beh) = 3
        /\ ChainEvents(r) = Onion(<<Mw("md1"), Mw("md2"), Mw("md3")>>, Handler("h1"))

\* C2: the template chain of a route is never advanced; every request runs
\* on its own chain object, whose cursor is the index of the last link the
\* request invoked, and the links it invoked are 0, 1, 2, ... in order.
C2_OwnCursor ==
    /\ \A n \in DOMAIN app.Routes :
          heap[RouteRef(n)] = AppRoutes[n].MiddlewareChain
    /\ \A r \in Requests :
          InChain(r) =>
            /\ ctx[r].MiddlewareChain = ReqRef(r)
            /\ stat[r].invoked = [i \in 1..Len(stat[r].invoked) |-> i - 1]
            /\ heap[ReqRef(r)].sp = Len(stat[r].invoked) - 1

C2_Witness ==
    \E r1, r2 \in Requests :
        /\ r1 # r2
        /\ InChain(r1) /\ InChain(r2)
        /\ ctx[r1].Route = ctx[r2].Route
        /\ ~Done(r1) /\ ~Done(r2)
        /\ heap[ReqRef(r1)].sp = 2
        /\ heap[ReqRef(r2)].sp = 0
        /\ heap[RouteRef(ctx[r1].Route)].sp = -1

\* The events of the end of a request: the recording of the response time
\* and the end_request hooks.
IsEndEvent(e) == e.e \in {"ResponseTime", "end_request"}
EndEvents(r) == SelectSeq(events[r], IsEndEvent)

\* C3: on every exit path of a request the response time is recorded and
\* then the end_request hooks run, exactly once, in reverse registration
\* order.
C3_CleanupOnEveryExit ==
    \A r \in Requests :
        Done(r) =>
            /\ ctx[r].ResponseTime
            /\ EndEvents(r) = <<Ev("ResponseTime", "", 0)>>
                              \o HookEvents("end_request", Reverse(AppHooks.end_request))

\* C5: two dispatches of the same method and path select the same route.
C5_SameRouteEveryDispatch ==
    \A r1, r2 \in Requests :
        ( /\ req[r1] = req[r2]
          /\ ctx[r1].Route # NoRoute
          /\ ctx[r2].Route # NoRoute )
            => ctx[r1].Route = ctx[r2].Route

\* The number of times the panic handler was called for r.
IsOnPanic(e) == e.e = "OnPanic"
OnPanicCalls(r) == Len(SelectSeq(events[r], IsOnPanic))

\* C8: a panic raised while a request is handled is caught by the deferred
\* cleanup; the panic handler is called once for a request that panicked and
\* never for one that did not; nothing but a panic of the panic handler
\* itself leaves App.ServeHTTP.
C8_RecoveredOnce ==
    \A r \in Requests :
        /\ OnPanicCalls(r) = stat[r].onPanic
        /\ stat[r].onPanic <= 1
        /\ stat[r].raised = 0 => stat[r].onPanic = 0
        /\ (Done(r) /\ stat[r].raised > 0) => stat[r].onPanic = 1
        /\ rcv[r] # NoPanic => HeadOp(r) = "cleanup"
        /\ stat[r].escaped => stat[r].onPanicPanicked

C8_Witness ==
    \E r \in Requests :
        /\ Done(r)
        /\ stat[r].raised = 1
        /\ stat[r].onPanic = 1
        /\ OnPanicCalls(r) = 1
        /\ ~stat[r].escaped
        /\ ctx[r].ResponseTime

\* The status the client sees: net/http sends 200 when the handler returns
\* without having written anything.
ClientStatus(w) == IF w.code = 0 THEN 200 ELSE w.code

\* The handler of r panicked, under the default panic handler with debug off.
DefaultPanicCase(r) ==
    /\ Done(r)
    /\ stat[r].hpanic
    /\ app.OnPanic = "DefaultOnPanic"
    /\ ~app.Config.Debug

FixedResponse(r) ==
    /\ wire[r].code = 500
    /\ wire[r].body = <<"Internal Server Error">>

\* A request of its own that did not panic is served as if no other request
\* had panicked: its chain ran onion-wise and no 500 was sent.
ServedNormally(r) ==
    (Done(r) /\ InChain(r) /\ OnlyWrap(r) /\ stat[r].raised = 0) =>
        /\ ChainEvents(r) = Onion(RouteMws(r), RouteHandler(r))
        /\ ClientStatus(wire[r]) # 500
        /\ stat[r].onPanic = 0
        /\ ctx[r].ResponseTime

C10_StopEndsChain ==
    \A r \in Requests :
        \A j \in DOMAIN stat[r].beh :
            stat[r].beh[j] = "stop" =>
                /\ Len(stat[r].beh) = j
                /\ Len(stat[r].invoked) = j
                /\ \A i \in DOMAIN events[r] : events[r][i].e # "H"

C10_Witness ==
    \E r \in Requests :
        /\ Done(r)
        /\ ctx[r].Route = "page1"
        /\ stat[r].beh = <<"wrap", "stop">>
        /\ ChainEvents(r) = <<Ev("pre", "md1", 1), Ev("pre", "md2", 2), Ev("post", "md1", 1)>>

\* C11: the chain of every route ends with the handler followed by the
\* sentinel; the cursor of a request stays inside the handler list, no DoNext
\* call indexes past its end, and the sentinel does nothing: no event comes
\* from the last position of the list.
C11_SentinelEndsChain ==
    /\ \A n \in DOMAIN app.Routes :
         LET mws == heap[RouteRef(n)].middlewares
         IN  /\ Len(mws) >= 2
             /\ mws[Len(mws)] = NopMiddleware
             /\ mws[Len(mws) - 1].kind = "handler"
    /\ \A r \in Requests :
         /\ rcv[r] # "index out of range"
         /\ \A i \in DOMAIN events[r] : events[r][i] # Ev("OnPanic", "index out of range", 0)
         /\ InChain(r) =>
              /\ heap[ReqRef(r)].sp <= Len(heap[ReqRef(r)].middlewares) - 1
              /\ \A i \in DOMAIN events[r] :
                   IsChainEvent(events[r][i]) =>
                       events[r][i].i <= Len(heap[ReqRef(r)].middlewares) - 1

\* The handler called DoNext: the cursor of the request is on the sentinel.
C11_Witness ==
    \E r \in Requests :
        /\ Done(r) /\ InChain(r)
        /\ stat[r].raised = 0
        /\ ctx[r].Route = "page1"
        /\ heap[ReqRef(r)].sp = 4
        /\ heap[ReqRef(r)].middlewares[5] = NopMiddleware
        /\ ChainEvents(r) = Onion(RouteMws(r), RouteHandler(r))

\* C12: a request that matches a route and does not panic runs the
\* start_request hooks in registration order, is routed, runs the
\* start_action hooks in registration order, then the chain, then the
\* end_action hooks in reverse registration order, and at last the
\* end_request hooks in reverse registration order.
C12_PhaseOrder ==
    \A r \in Requests :
        (Done(r) /\ ctx[r].Route # NoRoute /\ stat[r].raised = 0) =>
            events[r] =
                HookEvents("start_request", AppHooks.start_request)
                \o <<Ev("routed", ctx[r].Route, 0)>>
                \o HookEvents("start_action", AppHooks.start_action)
                \o ChainEvents(r)
                \o HookEvents("end_action", Reverse(AppHooks.end_action))
                \o <<Ev("ResponseTime", "", 0)>>
                \o HookEvents("end_request", Reverse(AppHooks.end_request))

C12_Witness ==
    \E r \in Requests :
        /\ Done(r) /\ ctx[r].Route = "page1" /\ stat[r].raised = 0
        /\ Len(ChainEvents(r)) = 7
        /\ Len(events[r]) = 17
        /\ events[r][1] = Ev("start_request", "sr1", 0)
        /\ events[r][13] = Ev("end_action", "ea2", 0)
        /\ events[r][17] = Ev("end_request", "accesslog", 0)

\* No registered route has the method of the request (the _method form value
\* when there is one) and a pattern that matches its path.
NoRouteFor(rq) ==
    LET method == IF rq.FormMethod # "" THEN rq.FormMethod ELSE rq.Method
    IN  \A n \in DOMAIN AppRoutes :
            \/ ToUpper(method) # ToUpper(AppRoutes[n].Method)
            \/ ~PatternMatches(AppRoutes[n].Pattern, rq.Path)

NotFoundInputs == {in \in RequestInputs : NoRouteFor(in)}

IsNotFound(e) == e.e = "OnNotFound"
IsActionEvent(e) == e.e \in {"routed", "start_action", "end_action", "pre", "H", "post"}

\* C13: a request that matches no route is never routed, runs no
\* start_action or end_action hook and no chain link; when it is done without
\* a panic the not-found handler was called exactly once, the client has
\* status 404 from the default handler, and the end_request hooks have run.
C13_NotFound ==
    \A r \in Requests :
        req[r] \in NotFoundInputs =>
            /\ ctx[r].Route = NoRoute
            /\ ~InChain(r)
            /\ SelectSeq(events[r], IsActionEvent) = <<>>
            /\ Len(SelectSeq(events[r], IsNotFound)) <= 1
            /\ (Done(r) /\ stat[r].raised = 0) =>
                  /\ Len(SelectSeq(events[r], IsNotFound)) = 1
                  /\ wire[r].code = 404
                  /\ wire[r].body = <<"404 page not found">>
                  /\ EndEvents(r) = <<Ev("ResponseTime", "", 0)>>
                                    \o HookEvents("end_request", Reverse(AppHooks.end_request))

\* A request not found because of its overridden method, and one not found
\* because of its path.
C13_Witness ==
    \E r, q \in Requests :
        /\ Done(r) /\ stat[r].raised = 0
        /\ req[r].Method = "POST" /\ req[r].FormMethod = "delete"
        /\ wire[r].code = 404
        /\ Len(SelectSeq(events[r], IsNotFound)) = 1
        /\ Done(q) /\ stat[q].raised = 0
        /\ req[q].Path = <<"nf">>
        /\ wire[q].code = 404

IsHandlerEvent(e) == e.e = "H"

\* C14: a request runs the chain of its selected route only, and its path
\* parameters are the captured groups of that route bound in order to the
\* route's parameter names; a request without a route has no parameters.
C14_OneRouteOwnParams ==
    \A r \in Requests :
        /\ ctx[r].Route = NoRoute => (ctx[r].PathParams = <<>> /\ ~InChain(r))
        /\ ctx[r].Route # NoRoute =>
              LET route == AppRoutes[ctx[r].Route]
                  sub == FindStringSubmatch(route.Pattern, req[r].Path)
              IN  /\ Len(sub) = Len(route.PathParamNames) + 1
                  /\ ctx[r].PathParams =
                        [i \in 1..Len(route.PathParamNames) |->
                            <<route.PathParamNames[i], sub[i + 1]>>]
        /\ InChain(r) =>
              /\ heap[ReqRef(r)].middlewares = RouteLinks(r)
              /\ Len(SelectSeq(events[r], IsHandlerEvent)) <= 1
              /\ \A i \in DOMAIN events[r] :
                    IsChainEvent(events[r][i]) =>
                        RouteLinks(r)[events[r][i].i].id = events[r][i].n

C14_Witness ==
    \E r, q \in Requests :
        /\ Done(r) /\ ctx[r].Route = "any"
        /\ ctx[r].PathParams = << <<"name", "page1">> >>
        /\ ChainEvents(r) = Onion(<<Mw("md1")>>, Handler("h2"))
        /\ Done(q) /\ ctx[q].Route = "page1"
        /\ ctx[q].PathParams = <<>>
        /\ req[q] = req[r]

\* ------------------------------------------- SignString, ValidateSignedString
\* Strings are sequences of characters.  A byte is the pair of its two
\* lower-case hexadecimal digits, which is how the verb %x prints it.
MaxIdLen == 2
IdChars == {"a", "-"}
Secrets == {"k1", "k2"}
Separator == <<"-", "-", "-", "-">>

RECURSIVE StringsUpTo(_, _)
StringsUpTo(chars, n) ==
    IF n = 0 THEN {<<>>}
    ELSE LET shorter == StringsUpTo(chars, n - 1)
         IN  shorter \cup {Append(t, c) : t \in shorter, c \in chars}

Ids == StringsUpTo(IdChars, MaxIdLen)

\* []byte(c) for the characters of the model (ASCII).
ByteOf(c) ==
    CASE c = "-" -> <<"2", "d">>
      [] c = "G" -> <<"4", "7">>
      [] c \in {"a", "b", "c", "d", "e", "f"} ->
            <<"6", CASE c = "a" -> "1" [] c = "b" -> "2" [] c = "c" -> "3"
                     [] c = "d" -> "4" [] c = "e" -> "5" [] OTHER -> "6">>
      [] OTHER -> <<"3", c>>

Bytes(str) == [i \in 1..Len(str) |-> ByteOf(str[i])]

\* fmt.Sprintf("%x", bytes)
RECURSIVE HexEncode(_)
HexEncode(bytes) ==
    IF bytes = <<>> THEN <<>> ELSE Head(bytes) \o HexEncode(Tail(bytes))

\* The digest of an HMAC keyed with key into which nothing was written (two
\* bytes stand for the twenty of SHA-1); it depends on the key alone.
HmacOfNothing(key) ==
    IF key = "k1" THEN << <<"3", "c">>, <<"9", "e">> >>
    ELSE << <<"7", "1">>, <<"0", "b">> >>

\* hmac.New(sha1.New, []byte(key)).Sum(b): hash.Hash.Sum appends the digest
\* of what was written to the hash, here nothing, to b.
HmacSum(key, b) == b \o HmacOfNothing(key)

\* SignString
SignString(value, key) ==
    HexEncode(HmacSum(key, Bytes(value))) \o Separator \o value

\* strings.Index(s, sep): the position of the first occurrence, 0 when absent.
IndexOf(s, sep) ==
    LET hits == {i \in 1..Len(s) : i + Len(sep) - 1 <= Len(s)
                                  /\ SubSeq(s, i, i + Len(sep) - 1) = sep}
    IN  IF hits = {} THEN 0 ELSE CHOOSE i \in hits : \A j \in hits : i <= j

\* strings.SplitN(s, sep, 2)
SplitN2(s, sep) ==
    LET i == IndexOf(s, sep)
    IN  IF i = 0 THEN <<s>>
        ELSE <<SubSeq(s, 1, i - 1), SubSeq(s, i + Len(sep), Len(s))>>

\* ValidateSignedString: the value and no error ("ok"), the error "data is
\* tampered" ("err"), or the run-time panic of parts[1] when the value holds
\* no separator ("panic").
ValidateSignedString(value, key) ==
    LET parts == SplitN2(value, Separator)
    IN  IF Len(parts) < 2 THEN [out |-> "panic", value |-> <<>>]
        ELSE IF parts[1] = HexEncode(HmacSum(key, Bytes(parts[2])))
             THEN [out |-> "ok", value |-> parts[2]]
             ELSE [out |-> "err", value |-> <<>>]

\* What a client that was handed signed, a signed value, builds for the id
\* id2 without the secret: the hexadecimal part of signed with the bytes of
\* its own id replaced by those of id2.
ForgeFrom(signed, id2) ==
    LET parts == SplitN2(signed, Separator)
        tag == SubSeq(parts[1], 2 * Len(parts[2]) + 1, Len(parts[1]))
    IN  HexEncode(Bytes(id2)) \o tag \o Separator \o id2

\* The characters a single-character change puts in place of another one.
TamperChars == {"0", "a", "-", "G"}

InitSign ==
    /\ \E id \in Ids, secret \in Secrets :
         sign = [NoSign EXCEPT !.phase = "new", !.id = id, !.secret = secret]
    /\ url = NoUrl /\ flash = NoFlash
    /\ store = NoStore /\ mu = NoHolder /\ sw = NoWorkers
    /\ app = NewApp(FALSE, "DefaultOnPanic")
    /\ heap = InitHeap
    /\ k = [r \in Requests |-> <<>>]
    /\ req = [r \in Requests |-> NoRequest]
    /\ ctx = [r \in Requests |-> NewContext]
    /\ rw = [r \in Requests |-> NewResponseWriter]
    /\ wire = [r \in Requests |-> NewWire]
    /\ rcv = [r \in Requests |-> NoPanic]
    /\ events = [r \in Requests |-> <<>>]
    /\ stat = [r \in Requests |-> NewStat]

\* The server signs the id (the session middleware, when it sets the cookie).
DoSign ==
    /\ sign.phase = "new"
    /\ sign' = [sign EXCEPT !.phase = "presented", !.how = "signed",
                            !.signed = SignString(sign.id, sign.secret),
                            !.presented = SignString(sign.id, sign.secret)]
    /\ UNCHANGED <<appVars, sessVars, url, flash>>

\* The client changes one character of the signed value.
DoTamper ==
    /\ sign.phase = "presented" /\ sign.how = "signed"
    /\ \E i \in 1..Len(sign.signed), c \in TamperChars :
         /\ c # sign.signed[i]
         /\ sign' = [sign EXCEPT !.how = "tampered",
                                 !.presented = [sign.signed EXCEPT ![i] = c]]
    /\ UNCHANGED <<appVars, sessVars, url, flash>>

\* The client builds a value for another id from the one it was handed.
DoForge ==
    /\ sign.phase = "presented" /\ sign.how = "signed"
    /\ \E id2 \in Ids \ {sign.id} :
         sign' = [sign EXCEPT !.how = "forged",
                              !.presented = ForgeFrom(sign.signed, id2)]
    /\ UNCHANGED <<appVars, sessVars, url, flash>>

\* The server validates the value the client presents.
DoValidate ==
    /\ sign.phase = "presented"
    /\ sign' = [sign EXCEPT !.phase = "validated",
                            !.result = ValidateSignedString(sign.presented, sign.secret)]
    /\ UNCHANGED <<appVars, sessVars, url, flash>>

NextSign == DoSign \/ DoTamper \/ DoForge \/ DoValidate

SpecSign == InitSign /\ [][NextSign]_vars

\* C6: a client that knows the signed value of its own id but not the secret
\* cannot build a value that validates as another id.
C6_Unforgeable ==
    (sign.phase = "validated" /\ sign.how = "forged")
        => ~(sign.result.out = "ok" /\ sign.result.value # sign.id)

\* C7: validating a freshly signed value returns the id and no error, and
\* after any single-character change validation fails with an error.
C7_RoundTripAndTamper ==
    sign.phase = "validated" =>
        /\ sign.how = "signed" => sign.result = [out |-> "ok", value |-> sign.id]
        /\ sign.how = "tampered" => sign.result.out = "err"

\* ------------------------------------ SessionMiddleware, MemorySessionStore
\* The workers that use the store: the goroutines serving requests and the
\* goroutine of the GC timer.  The timer is re-armed by Gc itself and fires
\* again once the run that re-armed it has returned.
MaxHeaderWrites == 1
\* The age a session in the store is let to reach, in units of LifeTime.
MaxAge == 2
\* SessionConfig.LifeTime, the unit of time of the model.
LifeTime == 1
SessWorkers == {"w1", "w2"}
GcWorker == "gc"
Workers == SessWorkers \cup {GcWorker}

\* SessionConfig.Secret
SessSecret == "k1"
\* The session ids NewSessionId may produce.
SessionIds == {<<"a">>, <<"b">>, <<"c">>}
NoSessionId == <<>>
\* ctx.Session == nil
NoSession == 0

SOp(o) == Op(o, "", 0)

\* A request as the session middleware sees it: a dynamic route or not, a
\* path under CookiePath or not, and the session cookie it carries.
SessInput(dynamic, underPath, has, cookie) ==
    [dynamic |-> dynamic, underPath |-> underPath, has |-> has, cookie |-> cookie]

SessInputs ==
    { SessInput(TRUE, TRUE, FALSE, <<>>),
      SessInput(TRUE, TRUE, TRUE, SignString(<<"a">>, SessSecret)),
      SessInput(TRUE, TRUE, TRUE, [SignString(<<"a">>, SessSecret) EXCEPT ![1] = "G"]),
      SessInput(TRUE, TRUE, TRUE, <<"a">>),
      SessInput(FALSE, TRUE, TRUE, SignString(<<"a">>, SessSecret)),
      SessInput(TRUE, FALSE, TRUE, SignString(<<"a">>, SessSecret)) }

\* A worker: its program, its request, the candidate id of NewSessionId,
\* ctx.Session, what the hook read and set, and what the worker has done;
\* finalized counts the runs of the hook that saved or deleted the session,
\* failed the panics of Save and Delete, and cleaned tells that App.cleanup
\* has run to its end;
\* armed counts the timers set by time.AfterFunc that have not fired yet.
NewWorker ==
    [ k |-> <<>>, in |-> SessInput(FALSE, FALSE, FALSE, <<>>), arrived |-> FALSE,
      arg |-> NoSessionId, session |-> NoSession, killed |-> FALSE,
      inOp |-> "", hook |-> FALSE, panicked |-> FALSE, setCookie |-> <<>>,
      maxAge |-> 0, armed |-> 0, used |-> FALSE, ran |-> FALSE,
      onPanic |-> FALSE, finalized |-> 0, failed |-> 0, cleaned |-> FALSE ]

\* MemorySessionStore.NewSession, as the steps of NewSessionId and the write
\* to the map.
NewSessionProgram == <<SOp("NewSessionId")>>

\* SessionMiddleware.ServeHTTP, the function literal that loads the session:
\* Lock, deferred Unlock, the cookie, Load or NewSession, the access time.
LoadStepProgram == <<SOp("Lock"), SOp("ReadCookie"), SOp("Touch"), SOp("Unlock")>>

SessionServeHTTPPassOn(in) ==
    IF ~in.dynamic \/ ~in.underPath THEN <<SOp("Handler")>>
    ELSE LoadStepProgram \o <<SOp("AddHook"), SOp("Handler")>>

SessionServeHTTPAlways(in) ==
    IF ~in.underPath THEN <<>>
    ELSE LoadStepProgram \o <<SOp("AddHook"), SOp("Handler")>>

\* SessionMiddleware.ServeHTTP
SessionServeHTTP(in) ==
    IF ~in.dynamic THEN <<SOp("Handler")>>
    ELSE IF ~in.underPath THEN <<>>
         ELSE LoadStepProgram \o <<SOp("AddHook"), SOp("Handler")>>

\* The before_write_header hook the middleware registers: Lock, deferred
\* Unlock, Delete or Save, the cookie.
FinalizeProgram == <<SOp("Lock"), SOp("Finalize"), SOp("SetCookie"), SOp("Unlock")>>

NoDeferredUnlock == <<>>

\* What is left to run when a panic leaves a function that has deferred
\* sm.Store.Unlock().
DeferredUnlock == <<SOp("Unlock")>>

\* SessionMiddleware.Gc
GcProgramOnce == <<SOp("Lock"), SOp("Gc"), SOp("Unlock")>>

GcProgramNoLock == <<SOp("Gc"), SOp("AfterFunc")>>

GcProgram == <<SOp("Lock"), SOp("Gc"), SOp("AfterFunc"), SOp("Unlock")>>

\* The operations of the SessionStore interface on the map.
StoreOps == {"Exists", "NewSession", "Load", "Save", "Delete", "Gc"}

\* The Session objects ever made, in the order of their making.  gone is
\* empty while the map of the store holds the object under its Id, and names
\* the operation that took it out of the map afterwards; age is the time
\* since LastAccessTime, which nobody reads once the object has left the map.
NoEntry(o, by) == [o EXCEPT !.gone = by, !.age = 0]
NewEntry(id) == [Id |-> id, Killed |-> FALSE, age |-> 0, gone |-> ""]

\* ms.store[sessionId]: the object the map holds under the id, if any.
Lookup(s, id) ==
    IF \E i \in DOMAIN s : s[i].Id = id /\ s[i].gone = ""
    THEN CHOOSE i \in DOMAIN s : s[i].Id = id /\ s[i].gone = ""
    ELSE NoSession

\* delete(ms.store, sessionId), and the overwriting of a key.
Remove(s, id, by) ==
    [i \in DOMAIN s |-> IF s[i].Id = id /\ s[i].gone = "" THEN NoEntry(s[i], by) ELSE s[i]]

ExistsNever(s, id) == FALSE

\* MemorySessionStore.Exists
Exists(s, id) == Lookup(s, id) # NoSession

ExpiredAtLifeTime(o) == o.age >= LifeTime

\* MemorySessionStore.Gc: time.Now().Sub(v.LastAccessTime) > LifeTime
Expired(o) == o.age > LifeTime

CookieSessionIdLenient(in) ==
    IF ~in.has THEN [out |-> "none", value |-> NoSessionId]
    ELSE LET v == ValidateSignedString(in.cookie, SessSecret)
         IN  IF v.out = "ok" THEN v ELSE [out |-> "none", value |-> NoSessionId]

\* r.Cookie(sm.Config.CookieName) and ValidateSignedString: no cookie, the id
\* of a cookie that validates, or the failure of one that does not.
CookieSessionId(in) ==
    IF ~in.has THEN [out |-> "none", value |-> NoSessionId]
    ELSE ValidateSignedString(in.cookie, SessSecret)

SHead(w) == IF sw[w].k = <<>> THEN "" ELSE Head(sw[w].k).op

InitSession ==
    /\ store = <<NewEntry(<<"a">>)>>
    /\ mu = NoHolder
    /\ sw = [w \in Workers |-> [NewWorker EXCEPT !.armed = IF w = GcWorker THEN 1 ELSE 0]]
    /\ sign = NoSign /\ url = NoUrl /\ flash = NoFlash
    /\ app = NewApp(FALSE, "DefaultOnPanic")
    /\ heap = InitHeap
    /\ k = [r \in Requests |-> <<>>]
    /\ req = [r \in Requests |-> NoRequest]
    /\ ctx = [r \in Requests |-> NewContext]
    /\ rw = [r \in Requests |-> NewResponseWriter]
    /\ wire = [r \in Requests |-> NewWire]
    /\ rcv = [r \in Requests |-> NoPanic]
    /\ events = [r \in Requests |-> <<>>]
    /\ stat = [r \in Requests |-> NewStat]

\* A request reaches the session middleware; the workers are named in the
\* order of arrival.
SessArrive(w) ==
    /\ w \in SessWorkers
    /\ ~sw[w].arrived
    /\ w = "w2" => sw["w1"].arrived
    /\ \E in \in SessInputs :
         sw' = [sw EXCEPT ![w].arrived = TRUE, ![w].in = in,
                          ![w].k = SessionServeHTTP(in)]
    /\ UNCHANGED <<appVars, signVars, store, mu>>

\* sm.Store.Lock(): the worker waits until the mutex is free.
SessLock(w) ==
    /\ SHead(w) = "Lock"
    /\ mu = NoHolder
    /\ mu' = w
    /\ sw' = [sw EXCEPT ![w].k = Tail(@)]
    /\ UNCHANGED <<appVars, signVars, store>>

\* The deferred sm.Store.Unlock(); when the function is left by a panic the
\* panic goes on to App.cleanup, which calls OnPanic, and a panic raised
\* while OnPanic runs leaves App.cleanup and App.ServeHTTP; nothing recovers
\* a panic on the goroutine of the GC timer.
SessUnlock(w) ==
    /\ SHead(w) = "Unlock"
    /\ mu' = NoHolder
    /\ sw' = [sw EXCEPT ![w].k = IF ~sw[w].panicked THEN Tail(@)
                                 ELSE IF sw[w].onPanic \/ w = GcWorker
                                      THEN <<SOp("Escape")>>
                                      ELSE <<SOp("OnPanic")>>]
    /\ UNCHANGED <<appVars, signVars, store>>

\* App.cleanup recovers the panic of the middleware and calls OnPanic; the
\* request is over.
SessOnPanic(w) ==
    /\ SHead(w) = "OnPanic"
    /\ sw' = [sw EXCEPT ![w].onPanic = TRUE, ![w].k = <<>>]
    /\ UNCHANGED <<appVars, signVars, store, mu>>

\* The load step, from the cookie to the choice of Load or NewSession; a
\* value that does not validate makes the step panic.
SessReadCookie(w) ==
    /\ SHead(w) = "ReadCookie"
    /\ LET v == CookieSessionId(sw[w].in)
       IN  sw' = IF v.out = "none"
                 THEN [sw EXCEPT ![w].k = NewSessionProgram \o Tail(@)]
                 ELSE IF v.out = "ok"
                      THEN [sw EXCEPT ![w].arg = v.value,
                                      ![w].k = <<SOp("Load")>> \o Tail(@)]
                      ELSE [sw EXCEPT ![w].panicked = TRUE,
                                      ![w].k = DeferredUnlock]
    /\ UNCHANGED <<appVars, signVars, store, mu>>

\* A worker enters an operation of the store.
StoreOpEnter(w) ==
    /\ SHead(w) \in StoreOps
    /\ sw[w].inOp = ""
    /\ sw' = [sw EXCEPT ![w].inOp = SHead(w), ![w].used = TRUE]
    /\ UNCHANGED <<appVars, signVars, store, mu>>

\* MemorySessionStore.Load: the stored session, or a new one.
StoreLoad(w) ==
    /\ sw[w].inOp = "Load"
    /\ LET found == Lookup(store, sw[w].arg)
       IN  sw' = IF found # NoSession
                 THEN [sw EXCEPT ![w].inOp = "", ![w].session = found,
                                 ![w].arg = NoSessionId, ![w].k = Tail(@)]
                 ELSE [sw EXCEPT ![w].inOp = "", ![w].k = NewSessionProgram \o Tail(@)]
    /\ UNCHANGED <<appVars, signVars, store, mu>>

\* MemorySessionStore.NewSessionId: one round of the loop draws a candidate.
StoreNewSessionId(w) ==
    /\ SHead(w) = "NewSessionId"
    /\ \E id \in SessionIds :
         sw' = [sw EXCEPT ![w].arg = id, ![w].k = <<SOp("Exists")>> \o Tail(@)]
    /\ UNCHANGED <<appVars, signVars, store, mu>>

\* MemorySessionStore.Exists, called by NewSessionId: a candidate in use
\* sends the loop round again, a free one is returned to NewSession.
StoreExists(w) ==
    /\ sw[w].inOp = "Exists"
    /\ sw' = [sw EXCEPT ![w].inOp = "",
                        ![w].k = IF Exists(store, sw[w].arg)
                                 THEN <<SOp("NewSessionId")>> \o Tail(@)
                                 ELSE <<SOp("NewSession")>> \o Tail(@)]
    /\ UNCHANGED <<appVars, signVars, store, mu>>

\* MemorySessionStore.NewSession: ms.store[session.Id] = session
StoreNewSession(w) ==
    /\ sw[w].inOp = "NewSession"
    /\ store' = Append(Remove(store, sw[w].arg, "NewSession"), NewEntry(sw[w].arg))
    /\ sw' = [sw EXCEPT ![w].inOp = "", ![w].session = Len(store) + 1,
                        ![w].arg = NoSessionId, ![w].k = Tail(@)]
    /\ UNCHANGED <<appVars, signVars, mu>>

\* session.UpdateLastAccessTime()
SessTouch(w) ==
    /\ SHead(w) = "Touch"
    /\ store' = IF sw[w].session = NoSession THEN store
                ELSE [store EXCEPT ![sw[w].session].age = 0]
    /\ sw' = [sw EXCEPT ![w].k = Tail(@)]
    /\ UNCHANGED <<appVars, signVars, mu>>

\* The middleware registers its before_write_header hook on the response.
SessAddHook(w) ==
    /\ SHead(w) = "AddHook"
    /\ sw' = [sw EXCEPT ![w].hook = TRUE, ![w].k = Tail(@)]
    /\ UNCHANGED <<appVars, signVars, store, mu>>

\* The rest of the chain: the handler may kill the session, and it calls
\* WriteHeader or Write of the tracker while nothing has been written, any
\* number of times or never; the header net/http sends for a handler that
\* wrote nothing does not pass through the tracker.
SessHandler(w) ==
    /\ SHead(w) = "Handler"
    /\ \E kill \in BOOLEAN, n \in 0..MaxHeaderWrites :
         /\ kill => sw[w].session # NoSession
         /\ store' = IF kill THEN [store EXCEPT ![sw[w].session].Killed = TRUE]
                     ELSE store
         /\ sw' = [sw EXCEPT ![w].ran = TRUE,
                             ![w].k = [i \in 1..n |-> SOp("WriteHeader")] \o Tail(@)]
    /\ UNCHANGED <<appVars, signVars, mu>>

\* responseWriter.WriteHeader runs the before_write_header hooks.
SessWriteHeader(w) ==
    /\ SHead(w) = "WriteHeader"
    /\ sw' = [sw EXCEPT ![w].k = IF sw[w].hook THEN FinalizeProgram \o Tail(@)
                                 ELSE Tail(@)]
    /\ UNCHANGED <<appVars, signVars, store, mu>>

\* The hook, after Lock: no session, a killed session or a live one.
SessFinalize(w) ==
    /\ SHead(w) = "Finalize"
    /\ sw' = IF sw[w].session = NoSession THEN [sw EXCEPT ![w].k = Tail(Tail(@))]
             ELSE IF store[sw[w].session].Killed
                  THEN [sw EXCEPT ![w].killed = TRUE, ![w].maxAge = -1,
                                  ![w].k = <<SOp("Delete")>> \o Tail(@)]
                  ELSE [sw EXCEPT ![w].k = <<SOp("Save")>> \o Tail(@)]
    /\ UNCHANGED <<appVars, signVars, store, mu>>

\* MemorySessionStore.Save: nothing to do.
StoreSave(w) ==
    /\ sw[w].inOp = "Save"
    /\ sw' = [sw EXCEPT ![w].inOp = "", ![w].k = Tail(@)]
    /\ UNCHANGED <<appVars, signVars, store, mu>>

\* MemorySessionStore.Delete
StoreDelete(w) ==
    /\ sw[w].inOp = "Delete"
    /\ store' = Remove(store, store[sw[w].session].Id, "Delete")
    /\ sw' = [sw EXCEPT ![w].inOp = "", ![w].k = Tail(@)]
    /\ UNCHANGED <<appVars, signVars, mu>>

\* The hook sets the cookie to the signed id of the session.
SessSetCookie(w) ==
    /\ SHead(w) = "SetCookie"
    /\ sw' = [sw EXCEPT ![w].setCookie = SignString(store[sw[w].session].Id, SessSecret),
                        ![w].finalized = @ + 1,
                        ![w].k = Tail(@)]
    /\ UNCHANGED <<appVars, signVars, store, mu>>

\* The GC timer fires: SessionMiddleware.Gc starts on its own goroutine.
GcFire ==
    /\ sw[GcWorker].armed > 0
    /\ sw[GcWorker].k = <<>>
    /\ sw' = [sw EXCEPT ![GcWorker].armed = @ - 1, ![GcWorker].k = GcProgram]
    /\ UNCHANGED <<appVars, signVars, store, mu>>

\* MemorySessionStore.Gc: the sessions not accessed for more than LifeTime
\* are deleted.
StoreGc(w) ==
    /\ sw[w].inOp = "Gc"
    /\ store' = [i \in DOMAIN store |->
                   IF store[i].gone = "" /\ Expired(store[i])
                   THEN NoEntry(store[i], "Gc") ELSE store[i]]
    /\ sw' = [sw EXCEPT ![w].inOp = "", ![w].k = Tail(@)]
    /\ UNCHANGED <<appVars, signVars, mu>>

\* time.AfterFunc(sm.Config.GcInterval, sm.Gc)
GcAfterFunc(w) ==
    /\ SHead(w) = "AfterFunc"
    /\ sw' = [sw EXCEPT ![w].armed = @ + 1, ![w].k = Tail(@)]
    /\ UNCHANGED <<appVars, signVars, store, mu>>

\* Time passes: the sessions in the store grow older by one LifeTime.  The
\* age of a session that has left the map is read by nobody.
TimePasses ==
    /\ \E i \in DOMAIN store : store[i].gone = "" /\ store[i].age < MaxAge
    /\ store' = [i \in DOMAIN store |->
                   IF store[i].gone = "" /\ store[i].age < MaxAge
                   THEN [store[i] EXCEPT !.age = @ + 1] ELSE store[i]]
    /\ UNCHANGED <<appVars, signVars, mu, sw>>

SessStep(w) ==
    \/ SessArrive(w)
    \/ SessLock(w)
    \/ SessUnlock(w)
    \/ SessOnPanic(w)
    \/ SessReadCookie(w)
    \/ StoreOpEnter(w)
    \/ StoreLoad(w)
    \/ StoreNewSessionId(w)
    \/ StoreExists(w)
    \/ StoreNewSession(w)
    \/ SessTouch(w)
    \/ SessAddHook(w)
    \/ SessHandler(w)
    \/ SessWriteHeader(w)
    \/ SessFinalize(w)
    \/ StoreSave(w)
    \/ StoreDelete(w)
    \/ SessSetCookie(w)
    \/ StoreGc(w)
    \/ GcAfterFunc(w)

NextSession == (\E w \in Workers : SessStep(w)) \/ GcFire \/ TimePasses

SpecSession == InitSession /\ [][NextSession]_vars

\* The worker is between a Lock it has taken and the Unlock that follows it.
InSection(w) ==
    /\ sw[w].k # <<>>
    /\ SHead(w) # "Lock"
    /\ \E i \in DOMAIN sw[w].k : sw[w].k[i].op = "Unlock"

\* C4: a worker that executes an operation of the store holds the store
\* lock; at most one worker is inside its critical section, and while Gc runs
\* no request worker is in an operation of the store or in its section.
C4_StoreOpsUnderLock ==
    /\ \A w \in Workers : sw[w].inOp # "" => (mu = w /\ InSection(w))
    /\ \A w \in Workers : InSection(w) => mu = w
    /\ Cardinality({w \in Workers : InSection(w) \/ sw[w].inOp # ""}) <= 1
    /\ sw[GcWorker].inOp = "Gc" =>
          \A w \in SessWorkers : sw[w].inOp = "" /\ ~InSection(w)

C4_Witness ==
    /\ sw[GcWorker].inOp = "Gc"
    /\ mu = GcWorker
    /\ \E w \in SessWorkers : SHead(w) = "Lock" /\ sw[w].hook
    /\ \E w \in SessWorkers : SHead(w) = "Lock" /\ ~sw[w].hook /\ sw[w].arrived
    /\ \E i \in DOMAIN store : store[i].gone = "" /\ Expired(store[i])

\* The before_write_header hook of the worker has set its cookie and is
\* about to return.
HookDone(w) == sw[w].setCookie # <<>> /\ SHead(w) = "Unlock"

\* C17: when the hook has run on the header write of a request with a
\* session: a killed session is absent from the store and the cookie has
\* MaxAge -1; a session not killed is in the store under its id and the
\* cookie value is SignString(id, secret).
C17_HeaderWritePersists ==
    \A w \in SessWorkers :
        HookDone(w) =>
            LET session == store[sw[w].session]
            IN  IF sw[w].killed
                THEN /\ ~Exists(store, session.Id)
                     /\ sw[w].maxAge = -1
                ELSE /\ Lookup(store, session.Id) = sw[w].session
                     /\ sw[w].setCookie = SignString(session.Id, SessSecret)

\* The requests whose session cookie does not validate.
InvalidCookies ==
    { in \in SessInputs :
        /\ in.dynamic /\ in.underPath /\ in.has
        /\ ValidateSignedString(in.cookie, SessSecret).out # "ok" }

InvalidCookie(w) == sw[w].arrived /\ sw[w].in \in InvalidCookies

\* C18: a request with a session cookie that does not validate gets no
\* session and no hook, uses no operation of the store, does not reach the
\* handler, and no step it takes changes the store; once it is over the
\* panic handler has been called and the lock is not held by it.
C18_InvalidCookiePanics ==
    [][ \A w \in SessWorkers :
          InvalidCookie(w)' =>
             /\ sw'[w] # sw[w] => store' = store
             /\ sw'[w].session = NoSession /\ ~sw'[w].used
             /\ ~sw'[w].ran /\ ~sw'[w].hook
             /\ sw'[w].k = <<>> => (sw'[w].onPanic /\ mu' # w) ]_vars

C18_Witness ==
    \E w \in SessWorkers :
        /\ InvalidCookie(w)
        /\ sw[w].k = <<>> /\ sw[w].panicked /\ sw[w].onPanic
        /\ mu = NoHolder
        /\ \E v \in SessWorkers : sw[v].session # NoSession /\ sw[v].ran

\* The worker is in the step of NewSession that writes to the map.
NewSessionStep(w) == sw[w].inOp = "NewSession" /\ sw'[w].inOp = ""

\* C19: NewSession returns a new Session whose id was no key of the store,
\* appends nothing but that session and leaves the others as they were; at
\* all times the sessions in the store have different ids, no session was
\* pushed out of the store by a new one, and two requests that were given
\* different sessions still in the store hold different ids.
C19_NewSessionFreshId ==
    [][ /\ \A w \in SessWorkers :
             NewSessionStep(w) =>
                 LET new == sw'[w].session
                 IN  /\ new = Len(store) + 1 /\ Len(store') = new
                     /\ ~\E i \in DOMAIN store :
                            store[i].gone = "" /\ store[i].Id = store'[new].Id
                     /\ store'[new].gone = "" /\ ~store'[new].Killed
                     /\ \A i \in DOMAIN store : store'[i] = store[i]
        /\ \A i, j \in DOMAIN store' :
             (i # j /\ store'[i].gone = "" /\ store'[j].gone = "")
                 => store'[i].Id # store'[j].Id
        /\ \A i \in DOMAIN store' : store'[i].gone # "NewSession"
        /\ \A v, w \in SessWorkers :
             ( /\ sw'[v].session # NoSession /\ sw'[w].session # NoSession
               /\ sw'[v].session # sw'[w].session
               /\ store'[sw'[v].session].gone = ""
               /\ store'[sw'[w].session].gone = "" )
                 => store'[sw'[v].session].Id # store'[sw'[w].session].Id ]_vars

\* Two concurrent requests without cookie hold their new sessions, which are
\* in the store next to the session that was there before.
C19_Witness ==
    /\ \A w \in SessWorkers : sw[w].arrived /\ ~sw[w].in.has /\ sw[w].in.dynamic
    /\ sw["w1"].session # NoSession /\ sw["w2"].session # NoSession
    /\ sw["w1"].session # sw["w2"].session
    /\ Len(store) = 3
    /\ \A i \in DOMAIN store : store[i].gone = ""
    /\ \A w \in SessWorkers : ~sw[w].ran

\* The GC worker is in the step of MemorySessionStore.Gc that sweeps the map.
GcSweepStep == sw[GcWorker].inOp = "Gc" /\ sw'[GcWorker].inOp = ""

\* C20: after a sweep of Gc the store holds exactly the sessions it held
\* before whose age does not exceed LifeTime, and these are unchanged.
C20_GcSweep ==
    [][ GcSweepStep =>
          /\ DOMAIN store' = DOMAIN store
          /\ \A i \in DOMAIN store :
               /\ store'[i].gone = "" <=> (store[i].gone = "" /\ store[i].age <= LifeTime)
               /\ store'[i].gone = "" => store'[i] = store[i] ]_vars

\* A sweep has just removed a session that was older than LifeTime and has
\* kept one whose age is LifeTime and one just accessed.
C20_Witness ==
    /\ SHead(GcWorker) = "AfterFunc" /\ sw[GcWorker].inOp = ""
    /\ \E i \in DOMAIN store : store[i].gone = "Gc"
    /\ \E i \in DOMAIN store : store[i].gone = "" /\ store[i].age = LifeTime
    /\ \E i \in DOMAIN store : store[i].gone = "" /\ store[i].age = 0

\* No request is being dispatched.
AppIdle ==
    /\ app = NewApp(FALSE, "DefaultOnPanic")
    /\ heap = InitHeap
    /\ k = [r \in Requests |-> <<>>]
    /\ req = [r \in Requests |-> NoRequest]
    /\ ctx = [r \in Requests |-> NewContext]
    /\ rw = [r \in Requests |-> NewResponseWriter]
    /\ wire = [r \in Requests |-> NewWire]
    /\ rcv = [r \in Requests |-> NoPanic]
    /\ events = [r \in Requests |-> <<>>]
    /\ stat = [r \in Requests |-> NewStat]

\* The session middleware after start_server, with one request still to
\* come: the first request was for a path outside CookiePath and is over.
InitSessionLive ==
    /\ store = <<NewEntry(<<"a">>)>>
    /\ mu = NoHolder
    /\ sw = [w \in Workers |->
               IF w = GcWorker THEN [NewWorker EXCEPT !.armed = 1]
               ELSE IF w = "w1"
                    THEN [NewWorker EXCEPT !.arrived = TRUE,
                                           !.in = SessInput(TRUE, FALSE, FALSE, <<>>)]
                    ELSE NewWorker]
    /\ sign = NoSign /\ url = NoUrl /\ flash = NoFlash
    /\ AppIdle

\* The goroutines are scheduled, the timer fires, time passes, and the
\* random ids of NewSessionId do not hit ids in use for ever.
SpecSessionLive ==
    /\ InitSessionLive
    /\ [][NextSession]_vars
    /\ WF_vars(GcFire)
    /\ WF_vars(TimePasses)
    /\ WF_vars(SessStep(GcWorker))
    /\ \A w \in SessWorkers : WF_vars(SessStep(w) /\ sw[w].arrived)
    /\ \A w \in SessWorkers :
         SF_vars(StoreNewSessionId(w) /\ ~Exists(store, sw'[w].arg))

\* C21: at most one sweep is pending; a run of Gc that has returned has
\* scheduled the next one, and every call of AfterFunc makes the one pending
\* timer; sweeps recur for ever; every session of the store is removed in
\* the end (the requests being finitely many, it is accessed finitely often).
C21_GcRecurs ==
    /\ [](sw[GcWorker].armed <= 1)
    /\ [](sw[GcWorker].k = <<>> => sw[GcWorker].armed = 1)
    /\ []<>(sw[GcWorker].inOp = "Gc")
    /\ \A i \in 1..(1 + Cardinality(SessWorkers)) :
         (i \in DOMAIN store /\ store[i].gone = "")
             ~> (i \in DOMAIN store /\ store[i].gone # "")

\* A sweep under the lock, after an earlier sweep has removed a session, with
\* no timer pending and a session made since then in the store.
C21_Witness ==
    /\ sw[GcWorker].inOp = "Gc" /\ mu = GcWorker
    /\ sw[GcWorker].armed = 0
    /\ \E i \in DOMAIN store : store[i].gone = "Gc"
    /\ \E i \in DOMAIN store : store[i].gone = ""

\* The id each request asks Load for, if its cookie validates.
RequestedId == [in \in SessInputs |-> CookieSessionId(in)]

\* The worker is in the step of Load that reads the map.
LoadStep(w) == sw[w].inOp = "Load" /\ sw'[w].inOp = ""

C32_StaticRouteSkipped ==
    \A w \in SessWorkers :
        (sw[w].arrived /\ ~sw[w].in.dynamic) =>
            /\ mu # w /\ ~sw[w].used /\ ~sw[w].panicked
            /\ sw[w].session = NoSession /\ sw[w].arg = NoSessionId
            /\ ~sw[w].hook /\ sw[w].setCookie = <<>> /\ sw[w].finalized = 0
            /\ Cardinality({i \in DOMAIN sw[w].k : sw[w].k[i].op = "Handler"})
                  = IF sw[w].ran THEN 0 ELSE 1
            /\ \A i \in DOMAIN sw[w].k : sw[w].k[i].op \in {"Handler", "WriteHeader"}

\* A request for a static route that carried the cookie of a stored session
\* is over, its handler having written the header, and the session has not
\* been accessed: it has aged, while another request holds a session.
C32_Witness ==
    \E w, v \in SessWorkers :
        /\ sw[w].arrived /\ ~sw[w].in.dynamic /\ sw[w].in.has
        /\ sw[w].ran /\ sw[w].k = <<>>
        /\ Lookup(store, RequestedId[sw[w].in].value) # NoSession
        /\ store[Lookup(store, RequestedId[sw[w].in].value)].age > 0
        /\ sw[v].session # NoSession /\ sw[v].hook

\* C39: for a request matched to a dynamic route whose path is not under
\* CookiePath the middleware has returned at once: the rest of the chain
\* has not run and is not going to, the worker never holds the store lock,
\* has entered no operation of the store, and has no session, hook or
\* cookie.
C39_OutsideCookiePathStops ==
    \A w \in SessWorkers :
        (sw[w].arrived /\ sw[w].in.dynamic /\ ~sw[w].in.underPath) =>
            /\ sw[w].k = <<>> /\ ~sw[w].ran
            /\ mu # w /\ ~sw[w].used /\ ~sw[w].panicked /\ ~sw[w].onPanic
            /\ sw[w].session = NoSession /\ sw[w].arg = NoSessionId
            /\ ~sw[w].hook /\ sw[w].setCookie = <<>> /\ sw[w].finalized = 0

\* Such a request carried the cookie of a stored session, which has aged
\* since, while the other request was given a session and ran its handler.
C39_Witness ==
    \E w, v \in SessWorkers :
        /\ sw[w].arrived /\ sw[w].in.dynamic /\ ~sw[w].in.underPath /\ sw[w].in.has
        /\ Lookup(store, RequestedId[sw[w].in].value) # NoSession
        /\ store[Lookup(store, RequestedId[sw[w].in].value)].age > 0
        /\ sw[v].session # NoSession /\ sw[v].ran /\ sw[v].k = <<>>

\* The request of the worker is over: its handler has returned and nothing
\* is left to run.
Completed(w) == sw[w].arrived /\ sw[w].ran /\ sw[w].k = <<>>

\* C26 as stated: when a request for a dynamic route with a session attached
\* is over, the hook has saved or deleted the session and issued the cookie
\* exactly once, whatever the handler wrote.
C26_FinalizeOnce ==
    \A w \in SessWorkers :
        (Completed(w) /\ sw[w].in.dynamic /\ sw[w].session # NoSession)
            => sw[w].finalized = 1

\* A SessionStore whose Save and Delete may panic, under the session
\* middleware and App.cleanup with the default OnPanic.  Two requests for
\* dynamic routes under CookiePath have reached the middleware; App.cleanup
\* is deferred behind each.
CleanupProgram == <<SOp("Cleanup")>>

InitStoreFails ==
    /\ store = <<NewEntry(<<"a">>)>>
    /\ mu = NoHolder
    /\ \E in1, in2 \in {in \in SessInputs : in.dynamic /\ in.underPath} :
         sw = [w \in Workers |->
                 IF w = GcWorker THEN NewWorker
                 ELSE LET in == IF w = "w1" THEN in1 ELSE in2
                      IN  [NewWorker EXCEPT !.arrived = TRUE, !.in = in,
                                            !.k = SessionServeHTTP(in) \o CleanupProgram]]
    /\ sign = NoSign /\ url = NoUrl /\ flash = NoFlash
    /\ app = NewApp(FALSE, "DefaultOnPanic")
    /\ heap = InitHeap
    /\ k = [r \in Requests |-> <<>>]
    /\ req = [r \in Requests |-> NoRequest]
    /\ ctx = [r \in Requests |-> NewContext]
    /\ rw = [r \in Requests |-> NewResponseWriter]
    /\ wire = [r \in Requests |-> NewWire]
    /\ rcv = [r \in Requests |-> NoPanic]
    /\ events = [r \in Requests |-> <<>>]
    /\ stat = [r \in Requests |-> NewStat]

\* Save or Delete of the store panics: the hook is left through its deferred
\* Unlock.
StorePanics(w) ==
    /\ sw[w].inOp \in {"Save", "Delete"}
    /\ sw' = [sw EXCEPT ![w].inOp = "", ![w].panicked = TRUE, ![w].failed = @ + 1,
                        ![w].k = DeferredUnlock]
    /\ UNCHANGED <<appVars, signVars, store, mu>>

\* App.cleanup recovers the panic and calls App.DefaultOnPanic: http.Error
\* calls WriteHeader(500) and then Write on the tracker, and Write, which
\* finds ContentLength() == 0, calls WriteHeader once more; the rest of
\* App.cleanup follows.
SessDefaultOnPanic(w) ==
    /\ SHead(w) = "OnPanic"
    /\ sw' = [sw EXCEPT ![w].onPanic = TRUE, ![w].panicked = FALSE,
                        ![w].k = <<SOp("WriteHeader"), SOp("WriteHeader")>> \o CleanupProgram]
    /\ UNCHANGED <<appVars, signVars, store, mu>>

\* App.cleanup after the recover: ResponseTime and the end_request hooks.
SessCleanup(w) ==
    /\ SHead(w) = "Cleanup"
    /\ sw' = [sw EXCEPT ![w].cleaned = TRUE, ![w].k = Tail(@)]
    /\ UNCHANGED <<appVars, signVars, store, mu>>

StoreFailsStep(w) ==
    \/ SessLock(w)
    \/ SessUnlock(w)
    \/ SessReadCookie(w)
    \/ StoreOpEnter(w)
    \/ StoreLoad(w)
    \/ StoreNewSessionId(w)
    \/ StoreExists(w)
    \/ StoreNewSession(w)
    \/ SessTouch(w)
    \/ SessAddHook(w)
    \/ SessHandler(w)
    \/ SessWriteHeader(w)
    \/ SessFinalize(w)
    \/ StoreSave(w)
    \/ StoreDelete(w)
    \/ StorePanics(w)
    \/ SessSetCookie(w)
    \/ SessDefaultOnPanic(w)
    \/ SessCleanup(w)

NextStoreFails == \E w \in SessWorkers : StoreFailsStep(w)

SpecStoreFails == InitStoreFails /\ [][NextStoreFails]_vars

\* C27 as stated: a request during which Save or Delete has panicked does
\* not hold the store lock when the panic reaches App.cleanup, gets its panic
\* handler called, and no panic leaves App.cleanup before it has run to its
\* end.
C27_StorePanicHandledAndCleaned ==
    \A w \in SessWorkers :
        sw[w].failed > 0 =>
            /\ SHead(w) \in {"OnPanic", "Cleanup", "Escape"} => mu # w
            /\ SHead(w) \in {"Cleanup", "Escape", ""} => sw[w].onPanic
            /\ SHead(w) # "Escape"
            /\ sw[w].k = <<>> => sw[w].cleaned

\* -------------------------------------------------------------- App.BuildUrl
\* TestAppBuildUrl: root := app.MountPoint("/"), two routes of two
\* parameters each, and a route without parameters.
MaxArgs == 3
ArgStrings == {"", "a", "b"}

UrlRoutes ==
    LET root == MountPoint(<<>>, <<>>)
        r1 == MountPointRoute(<<>>, root, "p1", <<Lit("p1"), Param("param1"), Param("param2")>>,
                              "GET", FALSE, Handler("h1"), <<>>)
        r2 == MountPointRoute(r1, root, "p2", <<Lit("p2"), Param("aaa"), Param("bbb")>>,
                              "GET", FALSE, Handler("h2"), <<>>)
        r3 == MountPointRoute(r2, root, "top", <<Lit("top")>>,
                              "GET", FALSE, Handler("h3"), <<>>)
    IN  r3

\* The names BuildUrl is called with: the registered ones and another one.
UrlNames == (DOMAIN UrlRoutes) \cup {"nope"}

RECURSIVE ArgsUpTo(_)
ArgsUpTo(n) ==
    IF n = 0 THEN {<<>>}
    ELSE LET shorter == ArgsUpTo(n - 1)
         IN  shorter \cup {Append(t, a) : t \in shorter, a \in ArgStrings}

\* The value of counter when the replacement function is called for the
\* group at position i of the pattern: it starts at -1 and is incremented
\* before each use.
CounterStuck(p, i) == 0

Counter(p, i) == Cardinality({j \in 1..i : p[j].t = "param"}) - 1

\* App.BuildUrl: a panic for a name that is not registered; otherwise every
\* named group of the pattern string is replaced by args[counter], which
\* panics when the arguments run out.
BuildUrl(routes, n, args) ==
    IF n \notin DOMAIN routes THEN [out |-> "panic", path |-> <<>>]
    ELSE LET p == routes[n].Pattern
         IN  IF \E i \in 1..Len(p) : p[i].t = "param" /\ Counter(p, i) >= Len(args)
             THEN [out |-> "panic", path |-> <<>>]
             ELSE [out |-> "ok",
                   path |-> [i \in 1..Len(p) |->
                              IF p[i].t = "param" THEN args[Counter(p, i) + 1]
                              ELSE p[i].s]]

InitUrl ==
    /\ \E n \in UrlNames, args \in ArgsUpTo(MaxArgs) :
         url = [NoUrl EXCEPT !.phase = "new", !.name = n, !.args = args]
    /\ sign = NoSign /\ flash = NoFlash
    /\ store = NoStore /\ mu = NoHolder /\ sw = NoWorkers
    /\ app = NewApp(FALSE, "DefaultOnPanic")
    /\ heap = InitHeap
    /\ k = [r \in Requests |-> <<>>]
    /\ req = [r \in Requests |-> NoRequest]
    /\ ctx = [r \in Requests |-> NewContext]
    /\ rw = [r \in Requests |-> NewResponseWriter]
    /\ wire = [r \in Requests |-> NewWire]
    /\ rcv = [r \in Requests |-> NoPanic]
    /\ events = [r \in Requests |-> <<>>]
    /\ stat = [r \in Requests |-> NewStat]

\* The application calls BuildUrl.
DoBuildUrl ==
    /\ url.phase = "new"
    /\ LET res == BuildUrl(UrlRoutes, url.name, url.args)
       IN  url' = [url EXCEPT !.phase = "built", !.out = res.out, !.path = res.path]
    /\ UNCHANGED <<appVars, sessVars, sign, flash>>

\* The path BuildUrl returned is dispatched with the method of the route:
\* the scan of App.ServeHTTP selects a route and binds its parameters.
DoDispatchUrl ==
    /\ url.phase = "built" /\ url.out = "ok"
    /\ \E order \in RangeOrders(UrlRoutes) :
         LET c == Scan(UrlRoutes, order, UrlRoutes[url.name].Method, url.path,
                       [Route |-> NoRoute, PathParams |-> <<>>])
         IN  url' = [url EXCEPT !.phase = "dispatched", !.Route = c.Route,
                                !.PathParams = c.PathParams]
    /\ UNCHANGED <<appVars, sessVars, sign, flash>>

NextUrl == DoBuildUrl \/ DoDispatchUrl

SpecUrl == InitUrl /\ [][NextUrl]_vars

\* The number of named parameters of the route called name.
ParamCount(name) == Len(UrlRoutes[name].PathParamNames)

\* Every argument is accepted by the sub-pattern [^/]+ of its parameter.
ArgsAccepted(args) == \A i \in DOMAIN args : args[i] # ""

C16_ArityMismatchPanics ==
    ( /\ url.phase # "off" /\ url.phase # "new"
      /\ \/ url.name \notin DOMAIN UrlRoutes
         \/ Len(url.args) # ParamCount(url.name) )
        => url.out = "panic"

\* ---------------------------------------- responseWriter and its callers
\* The code that holds a ResponseWriter calls Hooks().Add, SetHeader,
\* WriteHeader and Write on it, in any order; the connection may break.
MaxCalls == 2
MaxHooks == 2
TrackerHookNames == {"before_write_header", "after_write_header", "before_write_content"}

\* The first response is the one under study; the other one, of a request
\* served meanwhile, gets one hook and one call.
Quota(r, max) == IF r = 1 THEN max ELSE 1

\* The hooks registered on the tracker so far.
HookCount(hooks) ==
    LET n(name) == IF name \in DOMAIN hooks THEN Len(hooks[name]) ELSE 0
    IN  n("before_write_header") + n("after_write_header") + n("before_write_content")

\* An entry of the log of a response: a hook registered or a hook invoked,
\* with what the transport had been given by then.
HookEv(e, name, n, w) ==
    [e |-> e, name |-> name, n |-> n, code |-> w.code, sent |-> Len(w.body)]

InitWriter ==
    /\ AppIdle
    /\ sign = NoSign /\ url = NoUrl /\ flash = NoFlash
    /\ store = NoStore /\ mu = NoHolder /\ sw = NoWorkers

\* w.(ResponseWriter).Hooks().Add(name, hook); the hooks of a response are
\* numbered in the order of registration.
WriterAddHook(r) ==
    /\ k[r] = <<>>
    /\ HookCount(rw[r].hooks) < Quota(r, MaxHooks)
    /\ \E name \in TrackerHookNames :
         LET n == HookCount(rw[r].hooks) + 1
         IN  /\ rw' = [rw EXCEPT ![r].hooks = HooksAdd(@, name, n)]
             /\ events' = [events EXCEPT ![r] = Append(@, HookEv("add", name, n, wire[r]))]
    /\ UNCHANGED <<signVars, sessVars, app, heap, k, req, ctx, wire, rcv, stat>>

\* responseWriter.SetHeader
WriterSetHeader(r) ==
    /\ k[r] = <<>>
    /\ stat[r].writes < Quota(r, MaxCalls)
    /\ \E status \in {404} : rw' = [rw EXCEPT ![r].status = status]
    /\ stat' = [stat EXCEPT ![r].writes = @ + 1]
    /\ UNCHANGED <<signVars, sessVars, app, heap, k, req, ctx, wire, rcv, events>>

\* A call of WriteHeader or of Write.
WriterCall(r) ==
    /\ k[r] = <<>>
    /\ stat[r].writes < Quota(r, MaxCalls)
    /\ \/ \E status \in {404, 500} : k' = [k EXCEPT ![r] = <<Op("WriteHeader", "", status)>>]
       \/ \E b \in {"", "x"} : k' = [k EXCEPT ![r] = <<Op("Write", b, 0)>>]
    /\ stat' = [stat EXCEPT ![r].writes = @ + 1]
    /\ UNCHANGED <<signVars, sessVars, app, heap, req, ctx, rw, wire, rcv, events>>

\* Hooks.Run invokes one hook of the tracker.
RwHook(r) ==
    /\ HeadOp(r) \in TrackerHookNames
    /\ events' = [events EXCEPT ![r] =
                    Append(@, HookEv("run", Head(k[r]).op, Head(k[r]).s, wire[r]))]
    /\ k' = [k EXCEPT ![r] = Tail(@)]
    /\ UNCHANGED <<signVars, sessVars, app, heap, req, ctx, rw, wire, rcv, stat>>

\* The connection of the response under study breaks: the transport's Write
\* fails from now on.
WireBreaks(r) ==
    /\ r = 1
    /\ k[r] = <<>>
    /\ ~wire[r].broken
    /\ wire' = [wire EXCEPT ![r].broken = TRUE]
    /\ UNCHANGED <<signVars, sessVars, app, heap, k, req, ctx, rw, rcv, events, stat>>

NextWriter ==
    \E r \in Requests :
        \/ WriterAddHook(r)
        \/ WriterSetHeader(r)
        \/ WriterCall(r)
        \/ RwWriteHeader(r)
        \/ RwSetStatus(r)
        \/ RwWrite(r)
        \/ RwContent(r)
        \/ RwTransport(r)
        \/ RwHook(r)
        \/ WireBreaks(r)

SpecWriter == InitWriter /\ [][NextWriter]_vars

\* The entries of the log of response r that are runs of a hook point in names.
Runs(r, names) ==
    {i \in DOMAIN events[r] : events[r][i].e = "run" /\ events[r][i].name \in names}

\* The runs of one hook point come in reverse order of registration and no
\* hook runs twice.
OnceInReverse(r, names) ==
    \A i, j \in Runs(r, names) :
        (i < j /\ events[r][i].name = events[r][j].name)
            => events[r][i].n > events[r][j].n

\* Every hook of the hook points in names registered before the stage
\* (header written, or content written) has run.
AllRan(r, names) ==
    \A i \in DOMAIN events[r] :
        (events[r][i].e = "add" /\ events[r][i].name \in names /\ events[r][i].code = 0)
            => \E j \in Runs(r, names) : events[r][j].n = events[r][i].n

\* C22: on every response the before_write_header and after_write_header
\* hooks run once each, in reverse order of registration, the before hooks
\* ahead of the transport's header write and the after hooks behind it and
\* ahead of any content; when a call that wrote the header has returned,
\* all of them have run.
C22_HeaderHooksOnce ==
    \A r \in Requests :
        /\ OnceInReverse(r, {"before_write_header", "after_write_header"})
        /\ \A i \in Runs(r, {"before_write_header"}) : events[r][i].code = 0
        /\ \A i \in Runs(r, {"after_write_header"}) :
             events[r][i].code # 0 /\ events[r][i].sent = 0
        /\ (k[r] = <<>> /\ wire[r].code # 0)
             => AllRan(r, {"before_write_header", "after_write_header"})

\* C28: a header hook registered when the header of the response had been
\* written never runs, a before_write_content hook registered when content
\* had been written never runs, and the log of a response holds runs of its
\* own hooks only.
C28_LateHooksNeverRun ==
    \A r \in Requests :
        /\ \A i, j \in DOMAIN events[r] :
             ( /\ events[r][i].e = "add" /\ events[r][j].e = "run"
               /\ events[r][j].n = events[r][i].n
               /\ events[r][j].name = events[r][i].name )
                 => IF events[r][i].name = "before_write_content"
                    THEN events[r][i].sent = 0
                    ELSE events[r][i].code = 0
        /\ \A j \in Runs(r, TrackerHookNames) :
             /\ events[r][j].name \in DOMAIN rw[r].hooks
             /\ \E i \in DOMAIN rw[r].hooks[events[r][j].name] :
                  rw[r].hooks[events[r][j].name][i] = events[r][j].n

\* C29: on every response the before_write_content hooks run once each, in
\* reverse order of registration, after the header has gone to the transport
\* and before any content has.
C29_ContentHooksOnce ==
    \A r \in Requests :
        /\ OnceInReverse(r, {"before_write_content"})
        /\ \A i \in Runs(r, {"before_write_content"}) :
             events[r][i].code # 0 /\ events[r][i].sent = 0

RECURSIVE SumLen(_)
SumLen(bs) == IF bs = <<>> THEN 0 ELSE BLen(Head(bs)) + SumLen(Tail(bs))

\* C30: between the calls on a response, Status() is 0 as long as nothing
\* has been written and is the status the transport was given afterwards;
\* ContentLength() is the total length of the buffers the transport took.
C30_StatusAndLength ==
    \A r \in Requests :
        k[r] = <<>> =>
            /\ rw[r].status = wire[r].code
            /\ rw[r].contentLength = SumLen(wire[r].body)

\* ------------------------------------------------- Session flash messages
\* One Session and the code that calls AddFlash, Flash and Flashes on it.
MaxFlashCalls == 4
FlashCategories == {"info", "error"}
FlashMessages == {"a", "b"}

\* Session.AddFlash on the map under FlashKey: the list of the category is
\* made when absent, and the message is appended.
AddFlash(m, category, message) ==
    IF category \in DOMAIN m
    THEN [m EXCEPT ![category] = Append(@, message)]
    ELSE m @@ (category :> <<message>>)

FlashClearsAll(m, category) ==
    [ ret |-> IF category \in DOMAIN m THEN m[category] ELSE <<>>, m |-> <<>> ]

\* Session.Flash: the list of the category, removed from the map; an empty
\* list when absent.
Flash(m, category) ==
    [ ret |-> IF category \in DOMAIN m THEN m[category] ELSE <<>>,
      m |-> [c \in DOMAIN m \ {category} |-> m[c]] ]

FlashesKeep(m) == [ret |-> m, m |-> m]

\* Session.Flashes: the map under FlashKey is returned and a new, empty map
\* is set in its place.
Flashes(m) == [ret |-> m, m |-> <<>>]

\* NewSession: an empty map under FlashKey.
InitFlash ==
    /\ flash = [NoFlash EXCEPT !.on = TRUE]
    /\ sign = NoSign /\ url = NoUrl
    /\ store = NoStore /\ mu = NoHolder /\ sw = NoWorkers
    /\ AppIdle

DoAddFlash ==
    /\ flash.on /\ Len(flash.log) < MaxFlashCalls
    /\ \E c \in FlashCategories, msg \in FlashMessages :
         flash' = [flash EXCEPT !.m = AddFlash(@, c, msg),
                                !.log = Append(@, <<"AddFlash", c, msg>>)]
    /\ UNCHANGED <<appVars, sessVars, sign, url>>

DoFlash ==
    /\ flash.on /\ Len(flash.log) < MaxFlashCalls
    /\ \E c \in FlashCategories :
         LET res == Flash(flash.m, c)
         IN  flash' = [flash EXCEPT !.m = res.m, !.ret = res.ret,
                                    !.log = Append(@, <<"Flash", c, "">>)]
    /\ UNCHANGED <<appVars, sessVars, sign, url>>

DoFlashes ==
    /\ flash.on /\ Len(flash.log) < MaxFlashCalls
    /\ LET res == Flashes(flash.m)
       IN  flash' = [flash EXCEPT !.m = res.m, !.ret = res.ret,
                                  !.log = Append(@, <<"Flashes", "", "">>)]
    /\ UNCHANGED <<appVars, sessVars, sign, url>>

NextFlash == DoAddFlash \/ DoFlash \/ DoFlashes

SpecFlash == InitFlash /\ [][NextFlash]_vars

\* The position in the log of the last call before position n that cleared
\* category c (a Flashes, or a Flash of c); 0 when there is none.
LastCleared(log, n, c) ==
    LET cs == {i \in 1..(n - 1) :
                 log[i][1] = "Flashes" \/ (log[i][1] = "Flash" /\ log[i][2] = c)}
    IN  IF cs = {} THEN 0 ELSE CHOOSE i \in cs : \A j \in cs : j <= i

\* The messages of category c added between positions from and n of the
\* log, in the order of the calls.
RECURSIVE AddedSince(_, _, _, _)
AddedSince(log, from, n, c) ==
    IF from >= n THEN <<>>
    ELSE (IF log[from][1] = "AddFlash" /\ log[from][2] = c THEN <<log[from][3]>> ELSE <<>>)
         \o AddedSince(log, from + 1, n, c)

\* C23: a call of Flashes returns, for every category, the messages added
\* since the category was last cleared, in the order of the AddFlash calls,
\* and no category without such messages; after it nothing is left, and a
\* Flashes that follows a Flashes returns an empty map.
C23_FlashesReturnsAndClears ==
    LET n == Len(flash.log)
    IN  (flash.on /\ n > 0 /\ flash.log[n][1] = "Flashes") =>
           /\ \A c \in FlashCategories :
                LET added == AddedSince(flash.log, LastCleared(flash.log, n, c) + 1, n, c)
                IN  IF added = <<>> THEN c \notin DOMAIN flash.ret
                    ELSE c \in DOMAIN flash.ret /\ flash.ret[c] = added
           /\ DOMAIN flash.ret \subseteq FlashCategories
           /\ DOMAIN flash.m = {}
           /\ (n > 1 /\ flash.log[n - 1][1] = "Flashes") => DOMAIN flash.ret = {}

\* AddFlash("info","a"); AddFlash("info","b"); Flashes(); Flashes()
C23_Witness ==
    /\ flash.on
    /\ flash.log = << <<"AddFlash", "info", "a">>, <<"AddFlash", "info", "b">>,
                      <<"Flashes", "", "">>, <<"Flashes", "", "">> >>
    /\ DOMAIN flash.ret = {}
    /\ DOMAIN flash.m = {}

\* The messages the map holds under a category, none when it is absent.
Held(m, c) == IF c \in DOMAIN m THEN m[c] ELSE <<>>

\* C35: a call of Flash returns the messages added to its category since the
\* category was last cleared, in the order of the AddFlash calls (an empty
\* list when there are none), and removes that category; a call of AddFlash
\* puts its message at the end of its category; either call leaves every
\* other category, present or absent, as it was.
C35_FlashOneCategory ==
    [][ LET n == Len(flash'.log)
        IN  (flash.on /\ n = Len(flash.log) + 1 /\ flash'.log[n][1] # "Flashes") =>
              LET c == flash'.log[n][2]
              IN  /\ \A d \in FlashCategories \ {c} :
                       /\ d \in DOMAIN flash'.m <=> d \in DOMAIN flash.m
                       /\ Held(flash'.m, d) = Held(flash.m, d)
                  /\ flash'.log[n][1] = "Flash" =>
                       /\ flash'.ret = AddedSince(flash'.log,
                                                  LastCleared(flash'.log, n, c) + 1, n, c)
                       /\ flash'.ret = Held(flash.m, c)
                       /\ c \notin DOMAIN flash'.m
                  /\ flash'.log[n][1] = "AddFlash" =>
                       /\ c \in DOMAIN flash'.m
                       /\ flash'.m[c] = Append(Held(flash.m, c), flash'.log[n][3])
                       /\ flash'.ret = flash.ret ]_vars

\* AddFlash("info","a"); AddFlash("error","b"); AddFlash("info","b");
\* Flash("info")
C35_Witness ==
    /\ flash.on
    /\ flash.log = << <<"AddFlash", "info", "a">>, <<"AddFlash", "error", "b">>,
                      <<"AddFlash", "info", "b">>, <<"Flash", "info", "">> >>
    /\ flash.ret = <<"a", "b">>
    /\ DOMAIN flash.m = {"error"} /\ flash.m["error"] = <<"b">>

\* ------------------------------------ setting up middlewares and routes
\* The setup code of an application: app.Use, app.MountPoint, mp.Use and
\* mp.Get, in any order.  app holds App.Middlewares and App.Routes, the
\* mount points made so far, and the log of the calls.
MaxSetupCalls == 6
Mounts == {1, 2}
NoMount == [Path |-> <<>>, Middlewares |-> <<>>, made |-> FALSE]

\* The middleware mount point i is given by its Use calls, and the route
\* registered on it.
MountMw(i) == IF i = 1 THEN Mw("md2") ELSE Mw("md4")
MountRouteName(i) == IF i = 1 THEN "page1" ELSE "page3"

InitSetup ==
    /\ app = [ Middlewares |-> <<>>, Routes |-> <<>>,
               mounts |-> [i \in Mounts |-> NoMount], log |-> <<>> ]
    /\ heap = InitHeap
    /\ k = [r \in Requests |-> <<>>]
    /\ req = [r \in Requests |-> NoRequest]
    /\ ctx = [r \in Requests |-> NewContext]
    /\ rw = [r \in Requests |-> NewResponseWriter]
    /\ wire = [r \in Requests |-> NewWire]
    /\ rcv = [r \in Requests |-> NoPanic]
    /\ events = [r \in Requests |-> <<>>]
    /\ stat = [r \in Requests |-> NewStat]
    /\ sign = NoSign /\ url = NoUrl /\ flash = NoFlash
    /\ store = NoStore /\ mu = NoHolder /\ sw = NoWorkers

\* app.Use(md1)
AppUse ==
    /\ Len(app.log) < MaxSetupCalls
    /\ app' = [app EXCEPT !.Middlewares = @ \o <<Mw("md1")>>,
                          !.log = Append(@, <<"Use", 0, <<Mw("md1")>> >>)]
    /\ UNCHANGED <<signVars, sessVars, heap, k, req, ctx, rw, wire, rcv, events, stat>>

\* mp := app.MountPoint(path)
AppMountPoint(i) ==
    /\ Len(app.log) < MaxSetupCalls
    /\ ~app.mounts[i].made
    /\ LET mp == MountPoint(app.Middlewares, <<Lit(IF i = 1 THEN "p1" ELSE "p2")>>)
       IN  app' = [app EXCEPT !.mounts[i] = [Path |-> mp.Path, Middlewares |-> mp.Middlewares,
                                            made |-> TRUE],
                              !.log = Append(@, <<"MountPoint", i, <<>> >>)]
    /\ UNCHANGED <<signVars, sessVars, heap, k, req, ctx, rw, wire, rcv, events, stat>>

\* mp.Use(md)
MountUse(i) ==
    /\ Len(app.log) < MaxSetupCalls
    /\ app.mounts[i].made
    /\ app' = [app EXCEPT !.mounts[i].Middlewares =
                              MountPointUse(app.mounts[i], <<MountMw(i)>>).Middlewares,
                          !.log = Append(@, <<"MountUse", i, <<MountMw(i)>> >>)]
    /\ UNCHANGED <<signVars, sessVars, heap, k, req, ctx, rw, wire, rcv, events, stat>>

\* mp.Get(name, pattern, handler) and mp.Get(name, pattern, handler, md3)
MountGet(i) ==
    /\ Len(app.log) < MaxSetupCalls
    /\ app.mounts[i].made
    /\ MountRouteName(i) \notin DOMAIN app.Routes
    /\ \E own \in {<<>>, <<Mw("md3")>>} :
         app' = [app EXCEPT !.Routes = MountPointRoute(@, app.mounts[i], MountRouteName(i),
                                                       <<Lit(MountRouteName(i))>>, "GET", FALSE,
                                                       Handler("h1"), own),
                            !.log = Append(@, <<"Get", i, own>>)]
    /\ UNCHANGED <<signVars, sessVars, heap, k, req, ctx, rw, wire, rcv, events, stat>>

NextSetup == AppUse \/ \E i \in Mounts : AppMountPoint(i) \/ MountUse(i) \/ MountGet(i)

SpecSetup == InitSetup /\ [][NextSetup]_vars

\* The position in the log of the call named what on mount point i; 0 when
\* there is none.
LogPos(log, what, i) ==
    IF \E j \in DOMAIN log : log[j][1] = what /\ log[j][2] = i
    THEN CHOOSE j \in DOMAIN log : log[j][1] = what /\ log[j][2] = i
    ELSE 0

\* The middlewares given by the calls named what on i at the positions
\* from..to of the log, in the order of the calls.
RECURSIVE Given(_, _, _, _, _)
Given(log, what, i, from, to) ==
    IF from > to THEN <<>>
    ELSE (IF log[from][1] = what /\ log[from][2] = i THEN log[from][3] ELSE <<>>)
         \o Given(log, what, i, from + 1, to)

\* C24: the chain of the route registered on mount point i is the
\* middlewares given to app.Use before the mount point was made, then those
\* given to the mount point's Use before the route was registered, then the
\* route's own, the handler and the sentinel, with the cursor at -1; no
\* middleware of the other mount point is in it.
C24_CompiledChain ==
    \A i \in Mounts :
        MountRouteName(i) \in DOMAIN app.Routes =>
            LET made == LogPos(app.log, "MountPoint", i)
                got == LogPos(app.log, "Get", i)
                chain == app.Routes[MountRouteName(i)].MiddlewareChain
            IN  /\ chain.middlewares =
                       Given(app.log, "Use", 0, 1, made)
                       \o Given(app.log, "MountUse", i, made, got)
                       \o app.log[got][3]
                       \o <<Handler("h1"), NopMiddleware>>
                /\ chain.sp = -1
                /\ \A j \in Mounts \ {i}, x \in DOMAIN chain.middlewares :
                       chain.middlewares[x] # MountMw(j)

\* app.Use(md1); p1 := app.MountPoint; p1.Use(md2); app.Use(md1);
\* p1.Get(page1, md3); p1.Use(md2): the later Use calls are not in the chain.
C24_Witness ==
    /\ Len(app.log) = 6
    /\ app.log[2][1] = "MountPoint" /\ app.log[2][2] = 1
    /\ app.log[4][1] = "Use" /\ app.log[5][1] = "Get" /\ app.log[6][1] = "MountUse"
    /\ app.Middlewares = <<Mw("md1"), Mw("md1")>>
    /\ app.mounts[1].Middlewares = <<Mw("md1"), Mw("md2"), Mw("md2")>>
    /\ "page1" \in DOMAIN app.Routes
    /\ app.Routes["page1"].MiddlewareChain.middlewares =
         <<Mw("md1"), Mw("md2"), Mw("md3"), Handler("h1"), NopMiddleware>>

\* ------------------------------------------------------- App.newContextId
\* The workers of the server allocate the contexts of their requests.  app
\* holds App.contextIdSeq, the minute of the clock and the ids handed out so
\* far, in the order of the atomic additions; ctx holds the time.Now() a
\* worker has read for the id it is making.
MaxContexts == 4
MaxMinutes == 2
NotReading == -1

\* A uint32 is held as its two 16-bit halves <<high, low>>, the value being
\* high * 2^16 + low, so that all of its 32 bits are kept.
Half == 65536
Uint32Zero == <<0, 0>>
Uint32Max == <<Half - 1, Half - 1>>

\* The number seq + delta before it is cut to 32 bits: its high half may
\* reach 2^16.
Plus(seq, delta) == <<seq[1] + ((seq[2] + delta) \div Half), (seq[2] + delta) % Half>>

\* atomic.AddUint32(&seq, delta)
AddUint32None(seq, delta) == seq

AddUint32(seq, delta) == <<Plus(seq, delta)[1] % Half, Plus(seq, delta)[2]>>

\* fmt.Sprintf("%04d%02d%02d%02d%02d%010d", year, month, day, hour, minute,
\* seq): the minute of now and, in ten digits, the counter, which has at
\* most ten.
ContextId(now, seq) == <<now, seq>>

\* The App is new, or has served nearly 2^32 requests.
InitContextId ==
    /\ \E seq \in {Uint32Zero, <<Half - 1, Half - 2>>} : app = [contextIdSeq |-> seq, clock |-> 0, ids |-> <<>>]
    /\ ctx = [r \in Requests |-> [now |-> NotReading]]
    /\ heap = InitHeap
    /\ k = [r \in Requests |-> <<>>]
    /\ req = [r \in Requests |-> NoRequest]
    /\ rw = [r \in Requests |-> NewResponseWriter]
    /\ wire = [r \in Requests |-> NewWire]
    /\ rcv = [r \in Requests |-> NoPanic]
    /\ events = [r \in Requests |-> <<>>]
    /\ stat = [r \in Requests |-> NewStat]
    /\ sign = NoSign /\ url = NoUrl /\ flash = NoFlash
    /\ store = NoStore /\ mu = NoHolder /\ sw = NoWorkers

\* now := time.Now()
CtxNow(r) ==
    /\ ctx[r].now = NotReading
    /\ Len(app.ids) + Cardinality({q \in Requests : ctx[q].now # NotReading}) < MaxContexts
    /\ ctx' = [ctx EXCEPT ![r].now = app.clock]
    /\ UNCHANGED <<signVars, sessVars, app, heap, k, req, rw, wire, rcv, events, stat>>

\* The atomic addition and the formatting of the id.
CtxNewId(r) ==
    /\ ctx[r].now # NotReading
    /\ LET seq == AddUint32(app.contextIdSeq, 1)
       IN  app' = [app EXCEPT !.contextIdSeq = seq,
                              !.ids = Append(@, ContextId(ctx[r].now, seq))]
    /\ ctx' = [ctx EXCEPT ![r].now = NotReading]
    /\ UNCHANGED <<signVars, sessVars, heap, k, req, rw, wire, rcv, events, stat>>

\* The clock reaches the next minute.
ClockTick ==
    /\ app.clock < MaxMinutes
    /\ app' = [app EXCEPT !.clock = @ + 1]
    /\ UNCHANGED <<signVars, sessVars, heap, k, req, ctx, rw, wire, rcv, events, stat>>

NextContextId == ClockTick \/ \E r \in Requests : CtxNow(r) \/ CtxNewId(r)

SpecContextId == InitContextId /\ [][NextContextId]_vars

\* C25 as stated: the ids handed out are pairwise different, and the counter
\* in each is the counter of the one before plus one.
C25_Original ==
    /\ \A i, j \in DOMAIN app.ids : i # j => app.ids[i] # app.ids[j]
    /\ \A i \in DOMAIN app.ids : i > 1 => app.ids[i][2] = Plus(app.ids[i - 1][2], 1)

\* C25: the ids handed out are pairwise different (fewer than 2^32 of them
\* are made here), and the counter in each is the counter of the one before
\* plus one modulo 2^32.
C25_DistinctIdsModular ==
    /\ \A i, j \in DOMAIN app.ids : i # j => app.ids[i] # app.ids[j]
    /\ \A i \in DOMAIN app.ids :
         /\ app.ids[i][2] \in (0..(Half - 1)) \X (0..(Half - 1))
         /\ i > 1 => app.ids[i][2] = AddUint32(app.ids[i - 1][2], 1)

\* Two workers made ids with clock readings out of order, across the wrap of
\* the counter.
C25_Witness ==
    /\ Len(app.ids) = MaxContexts
    /\ app.ids[1][2] = Uint32Max /\ app.ids[2][2] = Uint32Zero
    /\ \E i \in 1..(MaxContexts - 1) : app.ids[i][1] > app.ids[i + 1][1]

\* ------------------------------------------- hooks added while serving
\* App.ServeHTTP with handlers that register hooks on the tracker of their
\* response, as the session middleware and TestResponseWriterHooks do.
MaxHandlerHooks == 1

TrackerHooksAddToApp(a, w, name, hook) ==
    [app |-> [a EXCEPT !.Hooks = HooksAdd(@, name, hook)], rw |-> w]

\* w.(ResponseWriter).Hooks().Add(name, hook): the App and the tracker
\* afterwards.
TrackerHooksAdd(a, w, name, hook) ==
    [app |-> a, rw |-> [w EXCEPT !.hooks = HooksAdd(@, name, hook)]]

\* The handler of the first request is the one that registers hooks.
HandlerAddHook(r) ==
    /\ r = 1
    /\ HeadOp(r) = "hbody"
    /\ Head(k[r]).s \in BusyHandlers
    /\ HookCount(rw[r].hooks) < MaxHandlerHooks
    /\ \E name \in TrackerHookNames :
         LET n == HookCount(rw[r].hooks) + 1
             after == TrackerHooksAdd(app, rw[r], name, n)
         IN  /\ app' = after.app
             /\ rw' = [rw EXCEPT ![r] = after.rw]
             /\ events' = [events EXCEPT ![r] = Append(@, HookEv("add", name, n, wire[r]))]
    /\ UNCHANGED <<signVars, sessVars, heap, k, req, ctx, wire, rcv, stat>>

NextHooked ==
    \/ Next
    \/ \E r \in Requests :
         \/ HandlerAddHook(r)
         \/ RwSetStatus(r)
         \/ RwTransport(r)
         \/ RwHook(r)

SpecHooked == Init /\ [][NextHooked]_vars

\* C33: no step of the serving of a request changes the App (its route
\* table, its hooks, its configuration) or the template chain of a route,
\* whose handler list and cursor are those NewRoute gave it; the hooks of a
\* tracker change only by a step of its own request.
C33_ServingLeavesSetupUnchanged ==
    [][ /\ app' = app
        /\ app.Hooks = AppHooks
        /\ DOMAIN app.Routes = DOMAIN AppRoutes
        /\ \A n \in DOMAIN AppRoutes :
             /\ heap'[RouteRef(n)] = heap[RouteRef(n)]
             /\ heap[RouteRef(n)] = AppRoutes[n].MiddlewareChain
             /\ heap[RouteRef(n)].sp = -1
             /\ app.Routes[n] = [AppRoutes[n] EXCEPT !.MiddlewareChain = RouteRef(n)]
        /\ \A r \in Requests :
             rw'[r].hooks # rw[r].hooks =>
                 /\ HeadOp(r) = "hbody" \/ stat[r].phase = "new"
                 /\ \A q \in Requests \ {r} : rw'[q] = rw[q] ]_vars

\* A request that found no route and a request whose handler registered a
\* hook on its tracker, had it run and then panicked are both over.
C33_Witness ==
    \E r, q \in Requests :
        /\ Done(r) /\ Done(q)
        /\ req[r] \in NotFoundInputs
        /\ stat[q].hpanic /\ HookCount(rw[q].hooks) = MaxHandlerHooks
        /\ \E i \in DOMAIN events[q] : events[q][i].e = "run"
        /\ heap[ReqRef(q)].sp > 0

\* ------------------------------------------------- the session cookie
\* The before_write_header hook of the session middleware, for every
\* SessionConfig of the bounds: app holds the configuration and the clock,
\* req the Host and the path of each request, ctx its session, and wire the
\* cookie the hook has set on the response.
MaxCookieClock == 2
NoCookie == <<>>
\* ctx.Session: nil, or the one session it points to.
Nil == <<>>
Hosts == {<<"h">>, <<"h", ":", "8">>}
CookieDomains == {<<>>, <<"d">>}
\* CookieExpires, a time.Duration: a signed number of time units.
CookieDurations == {-1, 0, 1}

SessionConfigs ==
    [ CookieName : {"gosessionid"}, CookieDomain : CookieDomains,
      CookieSecure : BOOLEAN, CookiePath : {<<>>, <<"p">>},
      CookieExpires : CookieDurations, Secret : {SessSecret} ]

\* strings.Split(host, ":")[0]: the host up to its first colon.
RECURSIVE SplitHost(_)
SplitHost(host) ==
    IF host = <<>> \/ Head(host) = ":" THEN <<>>
    ELSE <<Head(host)>> \o SplitHost(Tail(host))

\* strings.Index(path, prefix) == 0
HasPrefix(path, prefix) ==
    Len(prefix) <= Len(path) /\ SubSeq(path, 1, Len(prefix)) = prefix

CookieOfConfigOnly(cfg, host, now, session) ==
    [ Name |-> cfg.CookieName, Value |-> SignString(session.Id, cfg.Secret),
      Domain |-> cfg.CookieDomain, Secure |-> cfg.CookieSecure,
      Path |-> cfg.CookiePath, HttpOnly |-> TRUE,
      HasExpires |-> cfg.CookieExpires > 0,
      Expires |-> IF cfg.CookieExpires > 0 THEN now + cfg.CookieExpires ELSE 0,
      MaxAge |-> IF session.Killed THEN -1 ELSE 0 ]

\* The http.Cookie the hook builds for a session.
Cookie(cfg, host, now, session) ==
    [ Name |-> cfg.CookieName, Value |-> SignString(session.Id, cfg.Secret),
      Domain |-> IF Len(cfg.CookieDomain) = 0 THEN SplitHost(host) ELSE cfg.CookieDomain,
      Secure |-> cfg.CookieSecure, Path |-> cfg.CookiePath, HttpOnly |-> TRUE,
      HasExpires |-> cfg.CookieExpires # 0,
      Expires |-> IF cfg.CookieExpires # 0 THEN now + cfg.CookieExpires ELSE 0,
      MaxAge |-> IF session.Killed THEN -1 ELSE 0 ]

InitCookie ==
    /\ \E cfg \in SessionConfigs : app = [Config |-> cfg, clock |-> 0]
    /\ req = [r \in Requests |-> [Host |-> <<>>, Path |-> <<>>, hook |-> FALSE]]
    /\ ctx = [r \in Requests |-> [Session |-> Nil]]
    /\ wire = [r \in Requests |-> NoCookie]
    /\ heap = InitHeap
    /\ k = [r \in Requests |-> <<>>]
    /\ rw = [r \in Requests |-> NewResponseWriter]
    /\ rcv = [r \in Requests |-> NoPanic]
    /\ events = [r \in Requests |-> <<>>]
    /\ stat = [r \in Requests |-> NewStat]
    /\ sign = NoSign /\ url = NoUrl /\ flash = NoFlash
    /\ store = NoStore /\ mu = NoHolder /\ sw = NoWorkers

\* A request under CookiePath has been given its hook and, unless the load
\* step left ctx.Session nil, its session, which its handler has killed or
\* not.
CookieRequest(r) ==
    /\ ~req[r].hook
    /\ \E host \in Hosts, rest \in {<<>>, <<"x">>},
          session \in {Nil} \cup {<<[Id |-> <<"a">>, Killed |-> killed]>> : killed \in BOOLEAN} :
         /\ req' = [req EXCEPT ![r] = [Host |-> host, Path |-> app.Config.CookiePath \o rest,
                                       hook |-> TRUE]]
         /\ ctx' = [ctx EXCEPT ![r] = [Session |-> session]]
    /\ UNCHANGED <<signVars, sessVars, app, heap, k, rw, wire, rcv, events, stat>>

\* The hook runs on the header write: http.SetCookie(w, cookie).
CookieHook(r) ==
    /\ req[r].hook
    /\ wire[r] = NoCookie
    /\ HasPrefix(req[r].Path, app.Config.CookiePath)
    /\ ctx[r].Session # Nil
    /\ wire' = [wire EXCEPT ![r] = Cookie(app.Config, req[r].Host, app.clock, ctx[r].Session[1])]
    /\ UNCHANGED <<signVars, sessVars, app, heap, k, req, ctx, rw, rcv, events, stat>>

\* time.Now() moves on.
CookieClock ==
    /\ app.clock < MaxCookieClock
    /\ app' = [app EXCEPT !.clock = @ + 1]
    /\ UNCHANGED <<signVars, sessVars, heap, k, req, ctx, rw, wire, rcv, events, stat>>

NextCookie == CookieClock \/ \E r \in Requests : CookieRequest(r) \/ CookieHook(r)

SpecCookie == InitCookie /\ [][NextCookie]_vars

\* C34 as stated: the cookie has MaxAge -1 exactly when the session is
\* killed, has Expires only under a positive CookieExpires, and carries the
\* configured Domain, Path and Secure, with HttpOnly.
C34_Original ==
    \A r \in Requests :
        wire[r] # NoCookie =>
            /\ wire[r].MaxAge = -1 <=> ctx[r].Session[1].Killed
            /\ wire[r].HasExpires => app.Config.CookieExpires > 0
            /\ wire[r].Domain = app.Config.CookieDomain
            /\ wire[r].Path = app.Config.CookiePath
            /\ wire[r].Secure = app.Config.CookieSecure
            /\ wire[r].HttpOnly

\* C34: the cookie has MaxAge -1 exactly when the session is killed and
\* MaxAge unset otherwise; it has Expires exactly when CookieExpires is not
\* zero, positive or negative; its Domain is the configured one, or with none
\* configured the Host of the request up to its first colon; it carries the
\* configured Path, Secure and name, with HttpOnly.
C34_CookieAttributes ==
    \A r \in Requests :
        wire[r] # NoCookie =>
            /\ wire[r].MaxAge = -1 <=> ctx[r].Session[1].Killed
            /\ wire[r].MaxAge \in {-1, 0}
            /\ wire[r].HasExpires <=> app.Config.CookieExpires # 0
            /\ wire[r].HasExpires =>
                  \E now \in 0..app.clock : wire[r].Expires = now + app.Config.CookieExpires
            /\ app.Config.CookieDomain # <<>> => wire[r].Domain = app.Config.CookieDomain
            /\ app.Config.CookieDomain = <<>> =>
                  /\ wire[r].Domain = <<"h">>
                  /\ HasPrefix(req[r].Host, wire[r].Domain)
            /\ wire[r].Path = app.Config.CookiePath
            /\ wire[r].Secure = app.Config.CookieSecure
            /\ wire[r].Name = app.Config.CookieName
            /\ wire[r].HttpOnly

\* With no domain configured and a negative CookieExpires, the cookie of a
\* killed session sent to a host with a port and the cookie of a live
\* session have been issued.
C34_Witness ==
    /\ app.Config.CookieDomain = <<>> /\ app.Config.CookieExpires < 0
    /\ \E r, q \in Requests :
         /\ wire[r] # NoCookie /\ wire[q] # NoCookie
         /\ ctx[r].Session[1].Killed /\ ~ctx[q].Session[1].Killed
         /\ Len(req[r].Host) > 1
         /\ wire[r].HasExpires /\ wire[q].MaxAge = 0

\* ------------------------------------------------- the method override
\* The scan of App.ServeHTTP for requests of every verb and _method value of
\* the bounds, with AllowHttpMethodOverwrite on and off.
MethodInputs ==
    [ Method : {"GET", "post"}, Path : {<<"p1", "page1">>, <<"p1", "x">>},
      FormMethod : {"", "get", "POST", "delete"} ]

InitMethod ==
    /\ \E allow \in BOOLEAN :
         app = [NewApp(FALSE, "DefaultOnPanic") EXCEPT !.Config.AllowHttpMethodOverwrite = allow]
    /\ heap = InitHeap
    /\ k = [r \in Requests |-> <<>>]
    /\ req = [r \in Requests |-> NoRequest]
    /\ ctx = [r \in Requests |-> NewContext]
    /\ rw = [r \in Requests |-> NewResponseWriter]
    /\ wire = [r \in Requests |-> NewWire]
    /\ rcv = [r \in Requests |-> NoPanic]
    /\ events = [r \in Requests |-> <<>>]
    /\ stat = [r \in Requests |-> NewStat]
    /\ sign = NoSign /\ url = NoUrl /\ flash = NoFlash
    /\ store = NoStore /\ mu = NoHolder /\ sw = NoWorkers

\* A request has passed its start_request hooks and reaches the scan.
MethodArrive(r) ==
    /\ stat[r].phase = "new"
    /\ \E in \in MethodInputs : req' = [req EXCEPT ![r] = in]
    /\ ctx' = [ctx EXCEPT ![r] = [NewContext EXCEPT !.Started = TRUE]]
    /\ k' = [k EXCEPT ![r] = <<Op("match", "", 0), Op("cleanup", "", 0)>>]
    /\ stat' = [stat EXCEPT ![r].phase = "serving"]
    /\ UNCHANGED <<signVars, sessVars, app, heap, rw, wire, rcv, events>>

NextMethod == \E r \in Requests : MethodArrive(r) \/ Match(r)

SpecMethod == InitMethod /\ [][NextMethod]_vars

\* The scan of request r is over.
Scanned(r) == HeadOp(r) \in {"start_action", "not_found"}

\* The method the claim says is matched against the routes.
Effective(r) ==
    IF app.Config.AllowHttpMethodOverwrite /\ req[r].FormMethod # ""
    THEN req[r].FormMethod ELSE req[r].Method

\* C36: the route selected for a request has, up to the case of letters, the
\* method of the _method form value when overwriting is allowed and the
\* value is not empty, and the verb of the request otherwise, and its
\* pattern matches the path; no route is selected only when no route of that
\* method matches the path.
C36_MethodOverwrite ==
    \A r \in Requests :
        Scanned(r) =>
            IF ctx[r].Route = NoRoute
            THEN \A n \in DOMAIN app.Routes :
                    ~RouteMatches(app.Routes[n], Effective(r), req[r].Path)
            ELSE /\ ToUpper(app.Routes[ctx[r].Route].Method) = ToUpper(Effective(r))
                 /\ RouteMatches(app.Routes[ctx[r].Route], Effective(r), req[r].Path)

\* With overwriting allowed a lower-case post with _method=get reached a GET
\* route and a GET with _method=delete found none.
C36_Witness ==
    \E r, q \in Requests :
        /\ app.Config.AllowHttpMethodOverwrite
        /\ Scanned(r) /\ Scanned(q)
        /\ req[r].Method = "post" /\ req[r].FormMethod = "get"
        /\ req[q].Method = "GET" /\ req[q].FormMethod = "delete"
        /\ ctx[r].Route # NoRoute /\ app.Routes[ctx[r].Route].Method = "GET"
        /\ ctx[q].Route = NoRoute

\* With overwriting off the same two requests are matched by their verbs.
C36_WitnessOff ==
    \E r, q \in Requests :
        /\ ~app.Config.AllowHttpMethodOverwrite
        /\ Scanned(r) /\ Scanned(q)
        /\ req[r].Method = "post" /\ req[r].FormMethod = "get"
        /\ req[q].Method = "GET" /\ req[q].FormMethod = "delete"
        /\ ctx[r].Route = "edit" /\ ctx[q].Route # NoRoute

\* ------------------------------------------------------------ Hooks.Run
\* One Hooks registry, that of the first response: hooks are added under the
\* names of the tracker and the registry is run under these names and under
\* one that has no hooks, in either direction.  events holds the calls and,
\* after each Run, the hooks it invoked.
MaxRegistered == 3
MaxRuns == 2
RunNames == TrackerHookNames \cup {"end_request"}

InitHooks ==
    /\ AppIdle
    /\ sign = NoSign /\ url = NoUrl /\ flash = NoFlash
    /\ store = NoStore /\ mu = NoHolder /\ sw = NoWorkers

\* hooks.Add(name, hook); the hooks are numbered in the order of the calls.
DoHooksAdd(r) ==
    /\ r = 1
    /\ HookCount(rw[r].hooks) < MaxRegistered
    /\ \E name \in TrackerHookNames :
         LET n == HookCount(rw[r].hooks) + 1
         IN  /\ rw' = [rw EXCEPT ![r].hooks = HooksAdd(@, name, n)]
             /\ events' = [events EXCEPT ![r] = Append(@, HookEv("add", name, n, wire[r]))]
    /\ UNCHANGED <<signVars, sessVars, app, heap, k, req, ctx, wire, rcv, stat>>

\* hooks.Run(name, direction, w, r, data) with hooks that return.
DoHooksRun(r) ==
    /\ r = 1
    /\ stat[r].writes < MaxRuns
    /\ \E name \in RunNames, direction \in {HookDirectionNormal, HookDirectionReverse} :
         LET order == HooksRun(rw[r].hooks, name, direction)
         IN  events' = [events EXCEPT ![r] =
                          @ \o <<HookEv("Run", name, direction, wire[r])>>
                            \o [i \in 1..Len(order) |-> HookEv("run", name, order[i], wire[r])]]
    /\ stat' = [stat EXCEPT ![r].writes = @ + 1]
    /\ UNCHANGED <<signVars, sessVars, app, heap, k, req, ctx, rw, wire, rcv>>

NextHooks == \E r \in Requests : DoHooksAdd(r) \/ DoHooksRun(r)

SpecHooks == InitHooks /\ [][NextHooks]_vars

\* The hooks added under name before position i of the log, in the order of
\* the Add calls.
RECURSIVE Registered(_, _, _)
Registered(log, i, name) ==
    IF i <= 1 THEN <<>>
    ELSE Registered(log, i - 1, name)
         \o (IF log[i - 1].e = "add" /\ log[i - 1].name = name THEN <<log[i - 1].n>> ELSE <<>>)

\* The hooks invoked by the Run at position i of the log: the entries that
\* follow it up to the next call.
RECURSIVE Invoked(_, _)
Invoked(log, i) ==
    IF i + 1 > Len(log) \/ log[i + 1].e # "run" THEN <<>>
    ELSE <<log[i + 1]>> \o Invoked(log, i + 1)

\* C37: a Run of a name in the forward direction invokes the hooks added
\* under that name so far, each once, in the order they were added; a Run in
\* the reverse direction invokes them, each once, in the opposite order; no
\* hook of another name is invoked, and nothing is when the name has no hooks.
C37_HooksRunOrder ==
    \A i \in DOMAIN events[1] :
        events[1][i].e = "Run" =>
            LET added == Registered(events[1], i, events[1][i].name)
                ran == Invoked(events[1], i)
            IN  /\ Len(ran) = Len(added)
                /\ \A j \in DOMAIN ran :
                     /\ ran[j].name = events[1][i].name
                     /\ ran[j].n = IF events[1][i].n = HookDirectionNormal
                                   THEN added[j] ELSE added[Len(added) + 1 - j]

\* Three hooks, the first and the third under one name, were run forward and
\* then in reverse under that name.
C37_Witness ==
    /\ Len(events[1]) = 9
    /\ events[1][1].name = "before_write_header" /\ events[1][2].name = "after_write_header"
    /\ events[1][3].name = "before_write_header"
    /\ events[1][4].e = "Run" /\ events[1][4].n = HookDirectionNormal
    /\ events[1][5].n = 1 /\ events[1][6].n = 3
    /\ events[1][7].e = "Run" /\ events[1][7].n = HookDirectionReverse
    /\ events[1][8].n = 3 /\ events[1][9].n = 1

\* ------------------------------------------------ the store lock, liveness
\* The session middleware over a SessionStore any of whose operations may
\* panic, with two requests under way, the second with a cookie that does
\* not validate, and the GC timer armed.  A panic on the goroutine of the
\* timer ends the process; the requests are let to go on here, which only
\* adds behaviours.
InitLock ==
    /\ store = <<NewEntry(<<"a">>)>>
    /\ mu = NoHolder
    /\ \E in1 \in {in \in SessInputs : in.dynamic /\ in.underPath},
          in2 \in InvalidCookies :
         sw = [w \in Workers |->
                 IF w = GcWorker THEN [NewWorker EXCEPT !.armed = 1]
                 ELSE LET in == IF w = "w1" THEN in1 ELSE in2
                      IN  [NewWorker EXCEPT !.arrived = TRUE, !.in = in,
                                            !.k = SessionServeHTTP(in) \o CleanupProgram]]
    /\ sign = NoSign /\ url = NoUrl /\ flash = NoFlash
    /\ AppIdle

\* Load, NewSession, Exists or Gc of the store panics: the function that
\* took the lock is left through its deferred Unlock.
StoreOpPanics(w) ==
    /\ sw[w].inOp \in {"Load", "NewSession", "Exists", "Gc"}
    /\ sw' = [sw EXCEPT ![w].inOp = "", ![w].panicked = TRUE, ![w].k = DeferredUnlock]
    /\ UNCHANGED <<appVars, signVars, store, mu>>

LockStep(w) ==
    \/ StoreFailsStep(w)
    \/ StoreOpPanics(w)
    \/ StoreGc(w)
    \/ GcAfterFunc(w)

NextLock == (\E w \in Workers : LockStep(w)) \/ GcFire

\* The goroutines are scheduled, the timer fires, and the random ids of
\* NewSessionId do not hit ids in use for ever.
SpecLock ==
    /\ InitLock
    /\ [][NextLock]_vars
    /\ WF_vars(GcFire)
    /\ \A w \in Workers : WF_vars(LockStep(w))
    /\ \A w \in SessWorkers :
         SF_vars(StoreNewSessionId(w) /\ ~Exists(store, sw'[w].arg))

\* C38: a worker that holds the store lock releases it in the end, whatever
\* panics on the way; no worker holding the lock is about to take it again;
\* and whenever a worker waits for the lock, some worker gets it.
C38_LockReleased ==
    /\ \A w \in Workers : (mu = w) ~> (mu = NoHolder)
    /\ [](\A w \in Workers : SHead(w) = "Lock" => mu # w)
    /\ (\E w \in Workers : SHead(w) = "Lock") ~> (mu # NoHolder)

\* The GC sweep holds the lock while one request, whose cookie did not
\* validate, has been through the panic handler, and the other, which had a
\* panic in the store, waits for the lock in its hook.
C38_Witness ==
    /\ mu = GcWorker /\ sw[GcWorker].inOp = "Gc"
    /\ \E w, v \in SessWorkers :
         /\ InvalidCookie(w) /\ sw[w].onPanic /\ sw[w].cleaned
         /\ sw[v].failed > 0 /\ sw[v].onPanic /\ SHead(v) = "Lock"


\* ------------------------------------------------------- the route table
\* Routes are registered on the mount point "/" under a few names, with a
\* few patterns and methods and a handler of their own each; between the
\* registrations requests are dispatched and BuildUrl is called.  app holds
\* App.Routes and the log of the registrations, url the last dispatch or
\* BuildUrl, the number of registrations made before it, and what it
\* returned.
MaxRegistrations == 3
TableNames == {"a", "b"}
TablePatterns == {<<Lit("x")>>, <<Lit("y")>>, <<Param("id")>>}
TableMethods == {"GET", "POST"}
TablePaths == {<<"x">>, <<"y">>}
TableArgs == {<<>>, <<"x">>, <<"y">>}

InitTable ==
    /\ app = [Routes |-> <<>>, log |-> <<>>]
    /\ url = NoUrl
    /\ heap = InitHeap
    /\ k = [r \in Requests |-> <<>>]
    /\ req = [r \in Requests |-> NoRequest]
    /\ ctx = [r \in Requests |-> NewContext]
    /\ rw = [r \in Requests |-> NewResponseWriter]
    /\ wire = [r \in Requests |-> NewWire]
    /\ rcv = [r \in Requests |-> NoPanic]
    /\ events = [r \in Requests |-> <<>>]
    /\ stat = [r \in Requests |-> NewStat]
    /\ sign = NoSign /\ flash = NoFlash
    /\ store = NoStore /\ mu = NoHolder /\ sw = NoWorkers

\* The handler given to the i-th registration.
TableHandler(i) == Handler(<<"h1", "h2", "h3", "h4">>[i])

\* root.Route(n, p, m, false, h)
TableRoute ==
    /\ Len(app.log) < MaxRegistrations
    /\ \E n \in TableNames, p \in TablePatterns, m \in TableMethods :
         LET h == TableHandler(Len(app.log) + 1)
         IN  app' = [app EXCEPT
                       !.Routes = MountPointRoute(@, MountPoint(<<>>, <<>>), n, p, m,
                                                  FALSE, h, <<>>),
                       !.log = Append(@, [n |-> n, p |-> p, m |-> m, h |-> h])]
    /\ UNCHANGED <<url, sign, flash, sessVars, heap, k, req, ctx, rw, wire, rcv, events, stat>>

\* The handler of a route: the link of its chain before the sentinel.
HandlerOf(route) ==
    route.MiddlewareChain.middlewares[Len(route.MiddlewareChain.middlewares) - 1]

\* App.ServeHTTP, the scan of the route table for a request; handler is
\* the one ctx.Route.ServeHTTP would run.
TableDispatch ==
    /\ \E m \in TableMethods, path \in TablePaths, order \in RangeOrders(app.Routes) :
         LET c == Scan(app.Routes, order, m, path, [Route |-> NoRoute, PathParams |-> <<>>])
         IN  url' = [ phase |-> "dispatched", at |-> Len(app.log),
                      method |-> m, path |-> path,
                      Route |-> c.Route,
                      handler |-> IF c.Route = NoRoute THEN NopMiddleware
                                  ELSE HandlerOf(app.Routes[c.Route]) ]
    /\ UNCHANGED <<appVars, sign, flash, sessVars>>

\* app.BuildUrl(n, args...)
TableBuildUrl ==
    /\ \E n \in TableNames, args \in TableArgs :
         LET res == BuildUrl(app.Routes, n, args)
         IN  url' = [ phase |-> "built", at |-> Len(app.log),
                      name |-> n, args |-> args,
                      out |-> res.out, path |-> res.path ]
    /\ UNCHANGED <<appVars, sign, flash, sessVars>>

NextTable == TableRoute \/ TableDispatch \/ TableBuildUrl

SpecTable == InitTable /\ [][NextTable]_vars

\* The registrations made under the name n.
Under(log, n) == {i \in DOMAIN log : log[i].n = n}

\* The last registration under the name n, and the ones it replaced.
Latest(log, n) == CHOOSE i \in Under(log, n) : \A j \in Under(log, n) : j <= i
Replaced(log) == {i \in DOMAIN log : i # Latest(log, log[i].n)}

\* The registrations made before the last dispatch or BuildUrl.
LogAt == SubSeq(app.log, 1, url.at)

\* The registration matches a request: its method and pattern do.
Serves(e, m, path) == ToUpper(m) = ToUpper(e.m) /\ PatternMatches(e.p, path)

\* The table has one route for each name registered so far, the one of the
\* last registration under it, and no two routes with the same name.
TableIsLatest ==
    /\ DOMAIN app.Routes = {app.log[i].n : i \in DOMAIN app.log}
    /\ \A n \in DOMAIN app.Routes :
         LET e == app.log[Latest(app.log, n)]
         IN  /\ app.Routes[n].Name = n
             /\ app.Routes[n].Pattern = e.p
             /\ app.Routes[n].Method = e.m
             /\ HandlerOf(app.Routes[n]) = e.h
    /\ \A x, y \in DOMAIN app.Routes : app.Routes[x].Name = app.Routes[y].Name => x = y

\* BuildUrl with a registered name uses the pattern of the last
\* registration under it.
BuildUrlUsesLatest ==
    (url.phase = "built" /\ Under(LogAt, url.name) # {}) =>
        LET e == LogAt[Latest(LogAt, url.name)]
            one == MountPointRoute(<<>>, MountPoint(<<>>, <<>>), e.n, e.p, e.m, FALSE, e.h, <<>>)
        IN  /\ url.out = BuildUrl(one, url.name, url.args).out
            /\ url.path = BuildUrl(one, url.name, url.args).path
            /\ url.out = "ok" => PatternMatches(e.p, url.path)

\* BuildUrl panics for a name no registration was made under.
BuildUrlUnknownPanics ==
    (url.phase = "built" /\ Under(LogAt, url.name) = {}) => url.out = "panic"

\* C40 as stated: the table holds the last registration under each name,
\* BuildUrl uses its pattern, and once a route has been replaced no request
\* its pattern and method match is dispatched any more.
C40_Original ==
    /\ TableIsLatest
    /\ BuildUrlUsesLatest
    /\ url.phase = "dispatched" =>
         \A i \in Replaced(LogAt) :
             Serves(LogAt[i], url.method, url.path) => url.Route = NoRoute

\* C40: the table holds one route for each name, the one of the last
\* registration under it, and BuildUrl uses its pattern; a request is
\* dispatched to a route of the table that matches it and runs the handler
\* of the last registration under that name, never that of a replaced
\* route; it is not found exactly when no route of the table matches it, so
\* a request the pattern of a replaced route matched is still dispatched
\* when the replacing route or a route of another name matches it.
C40_RouteNamesAreKeys ==
    /\ TableIsLatest
    /\ BuildUrlUsesLatest
    /\ BuildUrlUnknownPanics
    /\ url.phase = "dispatched" =>
         /\ url.Route # NoRoute =>
              /\ Under(LogAt, url.Route) # {}
              /\ Serves(LogAt[Latest(LogAt, url.Route)], url.method, url.path)
              /\ url.handler = LogAt[Latest(LogAt, url.Route)].h
         /\ \A i \in Replaced(LogAt) : url.handler # LogAt[i].h
         /\ url.Route = NoRoute <=>
              ~\E n \in TableNames :
                  /\ Under(LogAt, n) # {}
                  /\ Serves(LogAt[Latest(LogAt, n)], url.method, url.path)

\* "a" was registered for /x and then again for /y: GET /x is not found.
C40_Witness ==
    /\ Len(app.log) = 2 /\ url.phase = "dispatched" /\ url.at = 2
    /\ app.log[1].n = "a" /\ app.log[1].p = <<Lit("x")>> /\ app.log[1].m = "GET"
    /\ app.log[2].n = "a" /\ app.log[2].p = <<Lit("y")>> /\ app.log[2].m = "GET"
    /\ url.phase = "dispatched" /\ url.method = "GET" /\ url.path = <<"x">>
    /\ url.Route = NoRoute

\* "a" was registered for /x, "b" for any segment, and "a" again for /y:
\* GET /x is dispatched to "b"; BuildUrl("a") gives /y.
C40_WitnessOther ==
    /\ Len(app.log) = 3 /\ url.phase = "dispatched" /\ url.at = 3
    /\ app.log[1].n = "a" /\ app.log[1].p = <<Lit("x")>> /\ app.log[1].m = "GET"
    /\ app.log[2].n = "b" /\ app.log[2].p = <<Param("id")>> /\ app.log[2].m = "GET"
    /\ app.log[3].n = "a" /\ app.log[3].p = <<Lit("y")>>
    /\ url.phase = "dispatched" /\ url.method = "GET" /\ url.path = <<"x">>
    /\ url.Route = "b" /\ url.handler = TableHandler(2)

====
